---- MODULE Spec2Model ----
(***************************************************************************)
(* Abacus training example generator: the rules (Simple, Brothers,         *)
(* Friends, Mix), ExampleGenerator.generate with its attempt loop and      *)
(* fallback, MultiDigitGenerator.generateExample, the top-level            *)
(* generateExample(settings) and PrintGenerator.generate.                  *)
(***************************************************************************)
EXTENDS Integers, Sequences, FiniteSets, TLC

(***************************************************************************)
(* Generic helpers for JavaScript arrays, modelled as sequences.           *)
(***************************************************************************)
Range(s) == {s[i] : i \in DOMAIN s}

Repeat(x, n) == [i \in 1..n |-> x]

RECURSIVE RepeatEach(_, _)
RepeatEach(s, n) ==
  IF s = <<>> THEN <<>> ELSE Repeat(Head(s), n) \o RepeatEach(Tail(s), n)

Negate(s) == [i \in DOMAIN s |-> 0 - s[i]]

RECURSIVE SumActions(_)
SumActions(steps) ==
  IF steps = <<>> THEN 0 ELSE Head(steps).action + SumActions(Tail(steps))

RECURSIVE Pow10(_)
Pow10(n) == IF n <= 0 THEN 1 ELSE 10 * Pow10(n - 1)

Abs(x) == IF x < 0 THEN 0 - x ELSE x

(***************************************************************************)
(* Program constants.                                                      *)
(***************************************************************************)
brotherTimes == 5
friendTimes == 5
mixTimes == 6
SingleDigitAttempts == 100
SmallVectorAttempts == 200
LargeVectorAttempts == 250
MultiDigitAttempts == 500
DefaultSimpleBlockDigits == <<1, 2, 3, 4, 5>>

(***************************************************************************)
(* Rule constructors.  A raw config is a record                            *)
(*   [selectedDigits, includeFive, simpleBlock, onlyAddition,              *)
(*    onlySubtraction, minSteps, maxSteps, digitCount, combineLevels]      *)
(* where simpleBlock = [present, digits] stands for config.blocks.simple.  *)
(***************************************************************************)
FilterDigits(digits, lo, hi) == SelectSeq(digits, LAMBDA n : n >= lo /\ n <= hi)

SimpleBlockDigitsOf(config) ==
  IF config.simpleBlock.present
    THEN FilterDigits(config.simpleBlock.digits, 1, 9)
    ELSE DefaultSimpleBlockDigits

\* The constructor with maxState fixed at 9, whatever the digits.
UnifiedSimpleRuleNineStates(config) ==
  LET selectedDigits == FilterDigits(config.selectedDigits, 1, 9)
      includeFive == (\E i \in DOMAIN selectedDigits : selectedDigits[i] >= 5)
                       \/ config.includeFive
  IN [kind |-> "Simple",
      selectedDigits |-> selectedDigits,
      includeFive |-> includeFive,
      techDigits |-> <<>>,
      simpleBlockDigits |-> <<>>,
      minState |-> 0,
      maxState |-> 9,
      minSteps |-> config.minSteps,
      maxSteps |-> config.maxSteps,
      onlyAddition |-> config.onlyAddition,
      onlySubtraction |-> config.onlySubtraction,
      digitCount |-> config.digitCount,
      combineLevels |-> config.combineLevels]

UnifiedSimpleRule(config) ==
  LET selectedDigits == FilterDigits(config.selectedDigits, 1, 9)
      includeFive == (\E i \in DOMAIN selectedDigits : selectedDigits[i] >= 5)
                       \/ config.includeFive
  IN [kind |-> "Simple",
      selectedDigits |-> selectedDigits,
      includeFive |-> includeFive,
      techDigits |-> <<>>,
      simpleBlockDigits |-> <<>>,
      minState |-> 0,
      maxState |-> IF includeFive THEN 9 ELSE 4,
      minSteps |-> config.minSteps,
      maxSteps |-> config.maxSteps,
      onlyAddition |-> config.onlyAddition,
      onlySubtraction |-> config.onlySubtraction,
      digitCount |-> config.digitCount,
      combineLevels |-> config.combineLevels]

BrothersRule(config) ==
  [kind |-> "Brothers",
   selectedDigits |-> config.selectedDigits,
   includeFive |-> config.includeFive,
   techDigits |-> FilterDigits(config.selectedDigits, 1, 4),
   simpleBlockDigits |-> SimpleBlockDigitsOf(config),
   minState |-> 0,
   maxState |-> 9,
   minSteps |-> config.minSteps,
   maxSteps |-> config.maxSteps,
   onlyAddition |-> config.onlyAddition,
   onlySubtraction |-> config.onlySubtraction,
   digitCount |-> config.digitCount,
   combineLevels |-> config.combineLevels]

FriendsRule(config) ==
  [kind |-> "Friends",
   selectedDigits |-> config.selectedDigits,
   includeFive |-> config.includeFive,
   techDigits |-> FilterDigits(config.selectedDigits, 1, 9),
   simpleBlockDigits |-> SimpleBlockDigitsOf(config),
   minState |-> 0,
   maxState |-> 99,
   minSteps |-> config.minSteps,
   maxSteps |-> config.maxSteps,
   onlyAddition |-> config.onlyAddition,
   onlySubtraction |-> config.onlySubtraction,
   digitCount |-> config.digitCount,
   combineLevels |-> config.combineLevels]

MixRule(config) ==
  [kind |-> "Mix",
   selectedDigits |-> config.selectedDigits,
   includeFive |-> config.includeFive,
   techDigits |-> FilterDigits(config.selectedDigits, 6, 9),
   simpleBlockDigits |-> SimpleBlockDigitsOf(config),
   minState |-> 0,
   maxState |-> 99,
   minSteps |-> config.minSteps,
   maxSteps |-> config.maxSteps,
   onlyAddition |-> config.onlyAddition,
   onlySubtraction |-> config.onlySubtraction,
   digitCount |-> config.digitCount,
   combineLevels |-> config.combineLevels]

NewRule(kind, config) ==
  CASE kind = "Simple" -> UnifiedSimpleRule(config)
    [] kind = "Brothers" -> BrothersRule(config)
    [] kind = "Friends" -> FriendsRule(config)
    [] kind = "Mix" -> MixRule(config)

(***************************************************************************)
(* Signature transitions.                                                  *)
(***************************************************************************)
getBrother(n) == 5 - n

getFriend(n) == 10 - n

\* Membership of the key "v-vNext-brotherN" in the set built by
\* _buildBrotherPairs(digits).
BrotherPairsHas(digits, v, vNext, n) ==
  LET U == IF v >= 5 THEN 1 ELSE 0
      L == IF v >= 5 THEN v - 5 ELSE v
      brother == getBrother(n)
  IN /\ n \in Range(digits)
     /\ v >= 0 /\ v <= 9
     /\ vNext >= 0 /\ vNext <= 9
     /\ \/ vNext = v + n /\ U = 0 /\ L + 5 >= brother
        \/ vNext = v - n /\ U = 1 /\ L - 5 + brother >= 0
                         /\ L - 5 + brother <= 4

\* The friend pairs with the carry needed only when the units overflow
\* strictly (units + n > 10).
FriendPairsHasStrictCarry(digits, v, vNext, n) ==
  LET units == v % 10
      tens == v \div 10
  IN /\ n \in Range(digits)
     /\ v >= 0 /\ v <= 99
     /\ vNext >= 0 /\ vNext <= 99
     /\ \/ vNext = v + n /\ units + n > 10 /\ tens < 9
        \/ vNext = v - n /\ units < n /\ tens > 0

\* Membership of the key "v-vNext-friendN" in the set built by
\* _buildFriendPairs(digits).
FriendPairsHas(digits, v, vNext, n) ==
  LET units == v % 10
      tens == v \div 10
  IN /\ n \in Range(digits)
     /\ v >= 0 /\ v <= 99
     /\ vNext >= 0 /\ vNext <= 99
     /\ \/ vNext = v + n /\ units + n >= 10 /\ tens < 9
        \/ vNext = v - n /\ units < n /\ tens > 0

\* The first configured digit equal to delta, 0 when there is none.
FirstMatch(digits, delta) ==
  IF \E i \in DOMAIN digits : digits[i] = delta
    THEN digits[CHOOSE i \in DOMAIN digits :
                  /\ digits[i] = delta
                  /\ \A j \in DOMAIN digits : digits[j] = delta => i <= j]
    ELSE 0

isBrotherTransition(rule, from, to) ==
  LET n == FirstMatch(rule.techDigits, Abs(to - from))
  IN n # 0 /\ BrotherPairsHas(rule.techDigits, from, to, n)

isFriendTransition(rule, from, to) ==
  LET n == FirstMatch(rule.techDigits, Abs(to - from))
  IN n # 0 /\ FriendPairsHas(rule.techDigits, from, to, n)

isMixTransition(rule, from, to) ==
  LET delta == to - from
      absDelta == Abs(delta)
      fromUnits == from % 10
      fromTens == from \div 10
  IN /\ absDelta \in Range(rule.techDigits)
     /\ \/ delta > 0 /\ fromUnits + delta >= 10 /\ fromTens < 9
                     /\ getFriend(delta) > 5
        \/ delta < 0 /\ fromUnits < absDelta /\ fromTens > 0
                     /\ getFriend(absDelta) > 5

isSignatureTransition(rule, from, to) ==
  CASE rule.kind = "Brothers" -> isBrotherTransition(rule, from, to)
    [] rule.kind = "Friends" -> isFriendTransition(rule, from, to)
    [] rule.kind = "Mix" -> isMixTransition(rule, from, to)
    [] OTHER -> FALSE

(***************************************************************************)
(* decomposeAction: the micro-steps of one action.  A micro-step is the    *)
(* record [action, type]; the description text is left out.                *)
(***************************************************************************)
MicroStep(action, type) == [action |-> action, type |-> type]

\* The decomposition with the lower beads moved in the direction of the action.
BrothersDecomposeActionSameSign(rule, state, action) ==
  LET brother == getBrother(Abs(action))
  IN IF isBrotherTransition(rule, state, state + action)
       THEN IF action > 0
              THEN <<MicroStep(5, "upper"), MicroStep(brother, "lower")>>
              ELSE <<MicroStep(0 - 5, "upper"), MicroStep(0 - brother, "lower")>>
       ELSE <<MicroStep(action, "simple")>>

\* BrothersRule.decomposeAction(state, action)
BrothersDecomposeAction(rule, state, action) ==
  LET brother == getBrother(Abs(action))
  IN IF isBrotherTransition(rule, state, state + action)
       THEN IF action > 0
              THEN <<MicroStep(5, "upper"), MicroStep(0 - brother, "lower")>>
              ELSE <<MicroStep(0 - 5, "upper"), MicroStep(brother, "lower")>>
       ELSE <<MicroStep(action, "simple")>>

\* The micro-steps with the whole friend taken off after the ten.
MixMicroStepsWholeFriend(n, positive) ==
  LET friend == getFriend(n)
  IN IF positive
       THEN <<MicroStep(10, "friend"), MicroStep(0 - 5, "brother"),
              MicroStep(0 - friend, "simple")>>
       ELSE <<MicroStep(0 - 10, "friend"), MicroStep(5, "brother"),
              MicroStep(friend, "simple")>>

\* The microSteps that _buildMixCombinations stores under the key n
\* (positive) or -n.
MixMicroSteps(n, positive) ==
  LET friend == getFriend(n)
  IN IF positive
       THEN <<MicroStep(10, "friend"), MicroStep(0 - 5, "brother"),
              MicroStep(0 - (friend - 5), "simple")>>
       ELSE <<MicroStep(0 - 10, "friend"), MicroStep(5, "brother"),
              MicroStep(friend - 5, "simple")>>

\* MixRule.decomposeAction(action): mixCombinations has the keys n and -n
\* for every n of mixDigits.
MixDecomposeAction(rule, action) ==
  IF Abs(action) \in Range(rule.techDigits)
    THEN MixMicroSteps(Abs(action), action > 0)
    ELSE <<MicroStep(action, "simple")>>

(***************************************************************************)
(* getAvailableActions: the array of actions offered from a state, in the  *)
(* order the code pushes them (signature actions repeated).                *)
(***************************************************************************)
\* getAvailableActions of the Simple rule with the additions not checked
\* against maxState.
SimpleAvailableActionsNoUpperBound(rule, state, isFirst) ==
  LET digits == rule.selectedDigits
      adds == SelectSeq(digits, LAMBDA d : state + d >= 0)
      zeroAdds == SelectSeq(digits, LAMBDA d : d <= rule.maxState)
      subs == SelectSeq(digits, LAMBDA d : state - d >= 0 /\ state - d <= rule.maxState)
  IN IF isFirst /\ ~rule.onlySubtraction THEN adds
     ELSE IF state = 0 /\ ~rule.onlySubtraction THEN zeroAdds
     ELSE (IF ~rule.onlySubtraction THEN adds ELSE <<>>)
          \o (IF ~rule.onlyAddition THEN Negate(subs) ELSE <<>>)

SimpleAvailableActions(rule, state, isFirst) ==
  LET digits == rule.selectedDigits
      adds == SelectSeq(digits, LAMBDA d : state + d >= 0 /\ state + d <= rule.maxState)
      zeroAdds == SelectSeq(digits, LAMBDA d : d <= rule.maxState)
      subs == SelectSeq(digits, LAMBDA d : state - d >= 0 /\ state - d <= rule.maxState)
  IN IF isFirst /\ ~rule.onlySubtraction THEN adds
     ELSE IF state = 0 /\ ~rule.onlySubtraction THEN zeroAdds
     ELSE (IF ~rule.onlySubtraction THEN adds ELSE <<>>)
          \o (IF ~rule.onlyAddition THEN Negate(subs) ELSE <<>>)

SignatureTimes(rule) ==
  CASE rule.kind = "Brothers" -> brotherTimes
    [] rule.kind = "Friends" -> friendTimes
    [] rule.kind = "Mix" -> mixTimes
    [] OTHER -> 1

\* Brothers, Friends and Mix share one shape: the sibling simple digits,
\* then the technique's digits that make a signature transition, repeated.
CompensationAvailableActions(rule, state, isFirst) ==
  LET hi == rule.maxState
      times == SignatureTimes(rule)
      simpleAdds == SelectSeq(rule.simpleBlockDigits,
                      LAMBDA d : state + d >= 0 /\ state + d <= hi)
      simpleZeroAdds == SelectSeq(rule.simpleBlockDigits, LAMBDA d : d <= hi)
      techAdds == SelectSeq(rule.techDigits,
                    LAMBDA d : /\ state + d >= 0 /\ state + d <= hi
                               /\ isSignatureTransition(rule, state, state + d))
      techZeroAdds == SelectSeq(rule.techDigits,
                        LAMBDA d : /\ state + d <= hi
                                   /\ isSignatureTransition(rule, state, state + d))
      simpleSubs == SelectSeq(rule.simpleBlockDigits,
                      LAMBDA d : state - d >= 0 /\ state - d <= hi)
      techSubs == SelectSeq(rule.techDigits,
                    LAMBDA d : /\ state - d >= 0 /\ state - d <= hi
                               /\ isSignatureTransition(rule, state, state - d))
  IN IF isFirst /\ ~rule.onlySubtraction
       THEN simpleAdds \o RepeatEach(techAdds, times)
     ELSE IF state = 0 /\ ~rule.onlySubtraction
       THEN simpleZeroAdds \o RepeatEach(techZeroAdds, times)
     ELSE (IF ~rule.onlySubtraction
             THEN simpleAdds \o RepeatEach(techAdds, times) ELSE <<>>)
          \o (IF ~rule.onlyAddition
                THEN Negate(simpleSubs) \o RepeatEach(Negate(techSubs), times)
                ELSE <<>>)

getAvailableActions(rule, state, isFirst) ==
  IF rule.kind = "Simple"
    THEN SimpleAvailableActions(rule, state, isFirst)
    ELSE CompensationAvailableActions(rule, state, isFirst)

applyAction(state, action) == state + action

\* generateStepsCount without the + 1: floor(random * (maxSteps - minSteps))
\* counted from one below minSteps.
StepsCountsOffByOne(rule) == (rule.minSteps - 1) .. rule.maxSteps

\* generateStepsCount: minSteps + floor(random * (maxSteps - minSteps + 1)),
\* random in [0, 1).
StepsCounts(rule) ==
  IF rule.maxSteps >= rule.minSteps
    THEN rule.minSteps .. rule.maxSteps
    ELSE (rule.maxSteps + 1) .. rule.minSteps

(***************************************************************************)
(* Examples and their validation.                                          *)
(***************************************************************************)
Step(from, action) ==
  [action |-> action, fromState |-> from, toState |-> applyAction(from, action)]

Example(start, steps, answer) ==
  [start |-> start, steps |-> steps, answer |-> answer]

\* The running state after the first k steps of an example.
StateAfter(example, k) == example.start + SumActions(SubSeq(example.steps, 1, k))

hasNegative(example) == \E i \in DOMAIN example.steps : example.steps[i].action < 0

hasPositive(example) == \E i \in DOMAIN example.steps : example.steps[i].action > 0

RespectsFlags(rule, example) ==
  /\ rule.onlyAddition => ~hasNegative(example)
  /\ rule.onlySubtraction => ~hasPositive(example)

BaseValidateExample(rule, example) ==
  /\ example.steps # <<>>
  /\ StateAfter(example, Len(example.steps)) = example.answer
  /\ RespectsFlags(rule, example)
  /\ ~(rule.digitCount > 1) =>
       \A k \in DOMAIN example.steps :
         /\ StateAfter(example, k) >= rule.minState
         /\ StateAfter(example, k) <= rule.maxState

isPhysicallyPossible(rule, state, action) ==
  LET newState == state + action
      upperActive == IF state >= 5 THEN 1 ELSE 0
      lowerActive == IF state >= 5 THEN state - 5 ELSE state
      newUpperActive == IF newState >= 5 THEN 1 ELSE 0
      newLowerActive == IF newState >= 5 THEN newState - 5 ELSE newState
      addUpper == newUpperActive - upperActive
      addLower == newLowerActive - lowerActive
      subUpper == upperActive - newUpperActive
      subLower == lowerActive - newLowerActive
  IN /\ ~(newState < 0 \/ newState > rule.maxState)
     /\ IF action > 0
          THEN /\ ~(addUpper > 0 /\ upperActive = 1)
               /\ ~(addLower > 0 /\ lowerActive + addLower > 4)
               /\ ~(addLower < 0 /\ lowerActive + addLower < 0)
          ELSE /\ ~(subUpper > 0 /\ upperActive = 0)
               /\ ~(subLower > 0 /\ lowerActive < subLower)
               /\ ~(subLower < 0 /\ lowerActive - subLower > 4)

SimpleValidateExample(rule, example) ==
  /\ BaseValidateExample(rule, example)
  /\ \A k \in DOMAIN example.steps :
       isPhysicallyPossible(rule, StateAfter(example, k - 1), example.steps[k].action)

hasSignatureStep(rule, example) ==
  \E k \in DOMAIN example.steps :
    isSignatureTransition(rule, StateAfter(example, k - 1), StateAfter(example, k))

\* validateExample of BrothersRule, FriendsRule and MixRule.
CompensationValidateExample(rule, example) ==
  /\ example.steps # <<>>
  /\ hasSignatureStep(rule, example)
  /\ \A k \in DOMAIN example.steps :
       ~(StateAfter(example, k) < 0 \/ StateAfter(example, k) > rule.maxState)
  /\ RespectsFlags(rule, example)

validateExample(rule, example) ==
  IF rule.kind = "Simple"
    THEN SimpleValidateExample(rule, example)
    ELSE CompensationValidateExample(rule, example)

(***************************************************************************)
(* One attempt of ExampleGenerator.  An outcome is either Thrown or a      *)
(* record [threw |-> FALSE, example |-> ...].                              *)
(***************************************************************************)
NoExample == Example(0, <<>>, 0)

Thrown == [threw |-> TRUE, example |-> NoExample]

Returned(example) == [threw |-> FALSE, example |-> example]

\* A run of an attempt's step loop: the steps assembled and the final
\* column vector, or ThrownRun when the loop threw.
Run(steps, final) == [threw |-> FALSE, steps |-> steps, final |-> final]

ThrownRun == [threw |-> TRUE, steps |-> <<>>, final |-> <<>>]

Prepend(step, run) ==
  IF run.threw THEN run ELSE Run(<<step>> \o run.steps, run.final)

\* The runs of the loop of _generateSingleDigitAttempt from step i on.
RECURSIVE SingleDigitRuns(_, _, _, _)
SingleDigitRuns(rule, state, i, stepsCount) ==
  IF i >= stepsCount THEN {Run(<<>>, <<state>>)}
  ELSE LET available == getAvailableActions(rule, state, i = 0)
       IN IF available = <<>> THEN {ThrownRun}
          ELSE UNION {
                 {Prepend(Step(state, a), rest) :
                    rest \in SingleDigitRuns(rule, applyAction(state, a), i + 1, stepsCount)}
                 : a \in Range(available)}

generateSingleDigitAttempt(rule, stepsCount) ==
  LET startState == 0
  IN {IF run.threw THEN Thrown
      ELSE Returned(Example(startState, run.steps, run.final[1]))
      : run \in SingleDigitRuns(rule, startState, 0, stepsCount)}

RECURSIVE vectorToNumber(_)
vectorToNumber(vector) ==
  IF vector = <<>> THEN 0
  ELSE Head(vector) * Pow10(Len(vector) - 1) + vectorToNumber(Tail(vector))

\* Independent columns: every column with available actions takes one of
\* them, a column without any stays where it is.
RECURSIVE IndependentNextVectors(_, _, _)
IndependentNextVectors(rule, vector, isFirst) ==
  IF vector = <<>> THEN {<<>>}
  ELSE LET available == getAvailableActions(rule, Head(vector), isFirst)
           heads == IF available = <<>> THEN {Head(vector)}
                    ELSE {applyAction(Head(vector), a) : a \in Range(available)}
       IN {<<h>> \o t : h \in heads,
                        t \in IndependentNextVectors(rule, Tail(vector), isFirst)}

VectorStep(vector, next, action) ==
  [action |-> action,
   fromState |-> vectorToNumber(vector),
   toState |-> vectorToNumber(next)]

\* _pickCombinedAction: the actions available to column 0.
pickCombinedAction(rule, vector, isFirst) ==
  Range(getAvailableActions(rule, vector[1], isFirst))

\* The runs of the loop of _generateMultiDigitAttemptVectorBased from step
\* i on.
RECURSIVE VectorRuns(_, _, _, _)
VectorRuns(rule, vector, i, stepsCount) ==
  IF i >= stepsCount THEN {Run(<<>>, vector)}
  ELSE IF rule.combineLevels
    THEN IF pickCombinedAction(rule, vector, i = 0) = {} THEN {ThrownRun}
         ELSE UNION {
           LET next == [pos \in DOMAIN vector |-> applyAction(vector[pos], a)]
           IN {Prepend(VectorStep(vector, next, a), rest) :
                 rest \in VectorRuns(rule, next, i + 1, stepsCount)}
           : a \in pickCombinedAction(rule, vector, i = 0)}
    ELSE UNION {
           {Prepend(VectorStep(vector, next,
                               vectorToNumber(next) - vectorToNumber(vector)), rest) :
              rest \in VectorRuns(rule, next, i + 1, stepsCount)}
           : next \in IndependentNextVectors(rule, vector, i = 0)}

generateMultiDigitAttemptVectorBased(rule, stepsCount) ==
  LET startStateVector == [pos \in 1..rule.digitCount |-> 0]
  IN {IF run.threw THEN Thrown
      ELSE Returned(Example(vectorToNumber(startStateVector), run.steps,
                            vectorToNumber(run.final)))
      : run \in VectorRuns(rule, startStateVector, 0, stepsCount)}

\* The cut that keeps the last maxSteps steps.
TruncateKeepLast(rule, example) ==
  IF Len(example.steps) > rule.maxSteps
    THEN LET kept == SubSeq(example.steps, Len(example.steps) - rule.maxSteps + 1,
                            Len(example.steps))
         IN Example(example.start, kept, example.start + SumActions(kept))
    ELSE example

\* Lines 319-334 of generate: cut an example longer than maxSteps and
\* recompute its answer.
Truncate(rule, example) ==
  IF Len(example.steps) > rule.maxSteps
    THEN LET kept == SubSeq(example.steps, 1, rule.maxSteps)
         IN Example(example.start, kept, example.start + SumActions(kept))
    ELSE example

\* A fallback whose answer is the sum of the positive steps only.
generateFallbackExampleWrongAnswer ==
  Example(0, <<[action |-> 1, fromState |-> 0, toState |-> 1],
               [action |-> 1, fromState |-> 1, toState |-> 2],
               [action |-> 0 - 1, fromState |-> 2, toState |-> 1]>>, 2)

\* A fallback whose steps open with the subtraction.
generateFallbackExampleSubtractFirst ==
  Example(0, <<[action |-> 0 - 1, fromState |-> 0, toState |-> 0 - 1],
               [action |-> 1, fromState |-> 0 - 1, toState |-> 0],
               [action |-> 1, fromState |-> 0, toState |-> 1]>>, 1)

generateFallbackExample ==
  Example(0, <<[action |-> 1, fromState |-> 0, toState |-> 1],
               [action |-> 1, fromState |-> 1, toState |-> 2],
               [action |-> 0 - 1, fromState |-> 2, toState |-> 1]>>, 1)

\* this.rule.config?.digitCount || 1
digitCountOf(r) == IF r.digitCount = 0 THEN 1 ELSE r.digitCount

\* The attempt budget with the doubling for independent columns left out.
maxAttemptsNotDoubled(rule) ==
  IF digitCountOf(rule) = 1 THEN SingleDigitAttempts
  ELSE IF digitCountOf(rule) <= 3 THEN SmallVectorAttempts
  ELSE LargeVectorAttempts

\* maxAttempts of ExampleGenerator.generate.
maxAttempts(rule) ==
  LET base == IF digitCountOf(rule) = 1 THEN SingleDigitAttempts
              ELSE IF digitCountOf(rule) <= 3 THEN SmallVectorAttempts
              ELSE LargeVectorAttempts
  IN IF ~rule.combineLevels /\ digitCountOf(rule) > 1 THEN base * 2 ELSE base

(***************************************************************************)
(* MultiDigitGenerator.  A generator is a record                           *)
(*   [multi, displayDigitCount, maxDigitCount, variableDigitCounts]        *)
(* beside the (base) rule; multi = FALSE stands for a plain rule.          *)
(***************************************************************************)
maxDigitAttempts == 50
maxZeroDigits == 1

Min(a, b) == IF a < b THEN a ELSE b

Max(a, b) == IF a > b THEN a ELSE b

MultiDigitGenerator(digitCount, variableDigitCounts) ==
  LET displayDigitCount == Max(1, Min(9, digitCount))
  IN [multi |-> TRUE,
      displayDigitCount |-> displayDigitCount,
      maxDigitCount |-> displayDigitCount + 1,
      variableDigitCounts |-> variableDigitCounts]

PlainRule ==
  [multi |-> FALSE, displayDigitCount |-> 1, maxDigitCount |-> 1,
   variableDigitCounts |-> FALSE]

\* The digit the retry loop of _generateMultiDigitAction leaves at one
\* position: a sampled digit that passes the checks, or, after
\* maxDigitAttempts rejected samples, the first configured digit.
RECURSIVE DigitRetry(_, _, _, _)
DigitRetry(accepted, rejectable, first, attempts) ==
  IF attempts >= maxDigitAttempts THEN {first}
  ELSE accepted \cup
       (IF rejectable THEN DigitRetry(accepted, rejectable, first, attempts + 1)
        ELSE {})

DigitChoices(selectedDigits, pos, usedDigits, zeroDigitsUsed) ==
  LET all == Range(selectedDigits)
      blocked(d) == (pos = 0 /\ d = 0) \/ (d = 0 /\ zeroDigitsUsed >= maxZeroDigits)
      accepted == {d \in all : ~blocked(d)}
      rejectable == \E d \in all : d \in usedDigits \/ blocked(d)
  IN DigitRetry(accepted, rejectable, selectedDigits[1], 0)

\* The digit lists of the given length from position pos on, each with the
\* count of zero digits used once it is complete.
RECURSIVE DigitLists(_, _, _, _, _)
DigitLists(selectedDigits, pos, digitCount, usedDigits, zeroDigitsUsed) ==
  IF pos >= digitCount THEN {[digits |-> <<>>, zeroDigitsUsed |-> zeroDigitsUsed]}
  ELSE UNION {
         {[digits |-> <<d>> \o rest.digits, zeroDigitsUsed |-> rest.zeroDigitsUsed] :
            rest \in DigitLists(selectedDigits, pos + 1, digitCount,
                                usedDigits \cup {d},
                                IF d = 0 THEN zeroDigitsUsed + 1 ELSE zeroDigitsUsed)}
         : d \in DigitChoices(selectedDigits, pos, usedDigits, zeroDigitsUsed)}

\* The sign with the flags read before the position of the step.
SignChoicesFlagsFirst(rule, currentState, isFirst) ==
  IF rule.onlyAddition THEN {1}
  ELSE IF rule.onlySubtraction THEN {0 - 1}
  ELSE IF isFirst THEN {1}
  ELSE IF currentState = 0 THEN {1}
  ELSE {1, 0 - 1}

SignChoices(rule, currentState, isFirst) ==
  IF isFirst THEN {1}
  ELSE IF currentState = 0 THEN {1}
  ELSE IF rule.onlyAddition THEN {1}
  ELSE IF rule.onlySubtraction THEN {0 - 1}
  ELSE {1, 0 - 1}

\* _generateMultiDigitAction without its final check of the bounds.
generateMultiDigitActionUnchecked(gen, rule, currentState, isFirst, zeroDigitsUsed) ==
  LET lengths == IF gen.variableDigitCounts THEN 1..gen.displayDigitCount
                 ELSE {gen.displayDigitCount}
  IN UNION {
       UNION {
         {[isNull |-> FALSE,
           action |-> vectorToNumber(list.digits) * sign,
           zeroDigitsUsed |-> list.zeroDigitsUsed]
          : sign \in SignChoices(rule, currentState, isFirst)}
         : list \in DigitLists(rule.selectedDigits, 0, digitCount, {}, zeroDigitsUsed)}
       : digitCount \in lengths}

\* The results of _generateMultiDigitAction: [isNull, action, zeroDigitsUsed].
generateMultiDigitAction(gen, rule, currentState, isFirst, zeroDigitsUsed) ==
  LET lengths == IF gen.variableDigitCounts THEN 1..gen.displayDigitCount
                 ELSE {gen.displayDigitCount}
  IN UNION {
       UNION {
         {LET action == vectorToNumber(list.digits) * sign
              nextState == currentState + action
          IN [isNull |-> nextState < 0 \/ nextState >= Pow10(gen.maxDigitCount),
              action |-> action,
              zeroDigitsUsed |-> list.zeroDigitsUsed]
          : sign \in SignChoices(rule, currentState, isFirst)}
         : list \in DigitLists(rule.selectedDigits, 0, digitCount, {}, zeroDigitsUsed)}
       : digitCount \in lengths}

\* The runs of the loop of _generateAttempt from step i on.
RECURSIVE MultiDigitRuns(_, _, _, _, _, _)
MultiDigitRuns(gen, rule, currentState, zeroDigitsUsed, i, stepsCount) ==
  IF i >= stepsCount THEN {Run(<<>>, <<currentState>>)}
  ELSE UNION {
         IF r.isNull THEN {ThrownRun}
         ELSE IF \/ currentState + r.action < 0
                 \/ currentState + r.action >= Pow10(gen.maxDigitCount)
           THEN {ThrownRun}
         ELSE {Prepend(Step(currentState, r.action), rest) :
                 rest \in MultiDigitRuns(gen, rule, currentState + r.action,
                                         r.zeroDigitsUsed, i + 1, stepsCount)}
         : r \in generateMultiDigitAction(gen, rule, currentState, i = 0, zeroDigitsUsed)}

generateAttempt(gen, rule, stepsCount) ==
  LET startState == 0
  IN {IF run.threw THEN Thrown
      ELSE Returned(Example(startState, run.steps, run.final[1]))
      : run \in MultiDigitRuns(gen, rule, startState, 0, 0, stepsCount)}

\* MultiDigitGenerator.generateExample(): stepsCount is drawn once, each
\* attempt that throws or fails validation is followed by the next one, and
\* when every attempt has failed the method throws.
MultiDigitGenerateExample(gen, rule) ==
  UNION {
    LET outs == generateAttempt(gen, rule, stepsCount)
        good == {out \in outs : ~out.threw /\ validateExample(rule, out.example)}
    IN good \cup (IF good # outs THEN {Thrown} ELSE {})
    : stepsCount \in StepsCounts(rule)}

(***************************************************************************)
(* ExampleGenerator.toTrainerFormat: "+N" / "-N" tokens, as sequences of   *)
(* characters.                                                             *)
(***************************************************************************)
DigitChars == <<"0", "1", "2", "3", "4", "5", "6", "7", "8", "9">>

\* String(n) for an integer n >= 0.
RECURSIVE NumberToString(_)
NumberToString(n) ==
  IF n < 10 THEN <<DigitChars[n + 1]>>
  ELSE NumberToString(n \div 10) \o <<DigitChars[(n % 10) + 1]>>

\* Formatting that leaves the "+" out of a positive action.
FormatActionUnsigned(action) ==
  IF action < 0 THEN <<"-">> \o NumberToString(0 - action)
  ELSE NumberToString(action)

FormatAction(action) ==
  IF action > 0 THEN <<"+">> \o NumberToString(action)
  ELSE IF action < 0 THEN <<"-">> \o NumberToString(0 - action)
  ELSE NumberToString(0)

toTrainerFormat(example) ==
  [start |-> example.start,
   steps |-> [i \in DOMAIN example.steps |-> FormatAction(example.steps[i].action)],
   answer |-> example.answer]

\* The fallback of generateExample's catch block.
generateExampleFallback ==
  [start |-> 0, steps |-> << <<"+", "1">>, <<"+", "2">>, <<"-", "1">> >>, answer |-> 2]

NoFormatted == [start |-> 0, steps |-> <<>>, answer |-> 0]

(***************************************************************************)
(* generateExample(settings): from settings to a rule, possibly wrapped.   *)
(* settings = [isNull, digits |-> [finite, value], combineLevels,          *)
(*   actions |-> [infinite, min, max, count],                              *)
(*   blocks |-> [simple, brothers, friends, mix]],                         *)
(* a block being [present, digits, onlyAddition, onlySubtraction].         *)
(***************************************************************************)
Absent == 0 - 1
InfiniteMinSteps == 2
InfiniteMaxSteps == 12
DefaultMinSteps == 2
DefaultMaxSteps == 4

\* a ?? b ?? c
Coalesce(a, b, c) == IF a # Absent THEN a ELSE IF b # Absent THEN b ELSE c

SettingsDigitCount(settings) ==
  IF settings.digits.finite /\ settings.digits.value > 0
    THEN settings.digits.value ELSE 1

SettingsMinSteps(settings) ==
  IF settings.actions.infinite THEN InfiniteMinSteps
  ELSE Coalesce(settings.actions.min, settings.actions.count, DefaultMinSteps)

SettingsMaxSteps(settings) ==
  IF settings.actions.infinite THEN InfiniteMaxSteps
  ELSE Coalesce(settings.actions.max, settings.actions.count, DefaultMaxSteps)

\* The rule class chosen with the friends block tested before the mix block.
SettingsRuleKindFriendsFirst(settings) ==
  IF settings.blocks.friends.digits # <<>> THEN "Friends"
  ELSE IF settings.blocks.mix.digits # <<>> THEN "Mix"
  ELSE IF settings.blocks.brothers.digits # <<>> THEN "Brothers"
  ELSE "Simple"

\* The rule class chosen: Mix > Friends > Brothers > Simple.
SettingsRuleKind(settings) ==
  IF settings.blocks.mix.digits # <<>> THEN "Mix"
  ELSE IF settings.blocks.friends.digits # <<>> THEN "Friends"
  ELSE IF settings.blocks.brothers.digits # <<>> THEN "Brothers"
  ELSE "Simple"

OrDefault(digits, default) == IF digits # <<>> THEN digits ELSE default

\* ruleConfigForClass
SettingsRuleConfig(settings) ==
  LET kind == SettingsRuleKind(settings)
      block == CASE kind = "Mix" -> settings.blocks.mix
                 [] kind = "Friends" -> settings.blocks.friends
                 [] kind = "Brothers" -> settings.blocks.brothers
                 [] OTHER -> settings.blocks.simple
      selected ==
        CASE kind = "Mix" -> OrDefault(FilterDigits(block.digits, 6, 9), <<6, 7, 8, 9>>)
          [] kind = "Friends" -> OrDefault(FilterDigits(block.digits, 1, 9), <<9>>)
          [] kind = "Brothers" -> OrDefault(FilterDigits(block.digits, 1, 4), <<4>>)
          [] OTHER -> OrDefault(FilterDigits(block.digits, 1, 9), <<1, 2, 3, 4>>)
  IN [selectedDigits |-> selected,
      includeFive |-> kind = "Simple"
                      /\ \E i \in DOMAIN block.digits :
                           block.digits[i] >= 5 /\ block.digits[i] <= 9,
      simpleBlock |-> [present |-> kind # "Simple" /\ settings.blocks.simple.present,
                       digits |-> settings.blocks.simple.digits],
      onlyAddition |-> block.onlyAddition,
      onlySubtraction |-> block.onlySubtraction,
      minSteps |-> SettingsMinSteps(settings),
      maxSteps |-> SettingsMaxSteps(settings),
      digitCount |-> 1,
      combineLevels |-> settings.combineLevels]

SettingsRule(settings) == NewRule(SettingsRuleKind(settings), SettingsRuleConfig(settings))

SettingsGenerator(settings) ==
  IF SettingsDigitCount(settings) > 1
    THEN MultiDigitGenerator(SettingsDigitCount(settings), settings.combineLevels)
    ELSE PlainRule

AttemptOutcomes(r, n) ==
  IF digitCountOf(r) = 1 THEN generateSingleDigitAttempt(r, n)
  ELSE generateMultiDigitAttemptVectorBased(r, n)

(***************************************************************************)
(* parseInt(token, 10) of a "+N" / "-N" token.                             *)
(***************************************************************************)
DigitValue(c) == CHOOSE d \in 0..9 : DigitChars[d + 1] = c

IsDigitChar(c) == \E d \in 0..9 : DigitChars[d + 1] = c

RECURSIVE ParseDigits(_, _)
ParseDigits(chars, acc) ==
  IF chars = <<>> \/ ~IsDigitChar(Head(chars)) THEN acc
  ELSE ParseDigits(Tail(chars), acc * 10 + DigitValue(Head(chars)))

ParseInt(token) ==
  IF token = <<>> THEN 0
  ELSE IF Head(token) = "-" THEN 0 - ParseDigits(Tail(token), 0)
  ELSE IF Head(token) = "+" THEN ParseDigits(Tail(token), 0)
  ELSE ParseDigits(token, 0)

RECURSIVE SumTokens(_)
SumTokens(tokens) ==
  IF tokens = <<>> THEN 0 ELSE ParseInt(Head(tokens)) + SumTokens(Tail(tokens))

(***************************************************************************)
(* What one call of generateExample(settings) can return: the first        *)
(* attempt that validates, or, when every attempt fails, a fallback.       *)
(***************************************************************************)
generateExampleResults(s) ==
  IF s.isNull THEN {generateExampleFallback}
  ELSE LET r == SettingsRule(s)
           g == SettingsGenerator(s)
           plain == UNION {AttemptOutcomes(r, n) : n \in StepsCounts(r)}
           plainOk == {Truncate(r, o.example) :
                         o \in {x \in plain : ~x.threw
                                  /\ validateExample(r, Truncate(r, x.example))}}
           multi(n) == generateAttempt(g, r, n)
           multiOk(n) == {o.example :
                            o \in {x \in multi(n) : ~x.threw /\ validateExample(r, x.example)}}
       IN IF g.multi
            THEN UNION {
                   {toTrainerFormat(e) : e \in multiOk(n)}
                   \cup (IF Cardinality(multiOk(n)) < Cardinality(multi(n))
                           THEN {generateExampleFallback} ELSE {})
                   : n \in StepsCounts(r)}
            ELSE {toTrainerFormat(e) : e \in plainOk}
                 \cup (IF \E x \in plain :
                            x.threw \/ ~validateExample(r, Truncate(r, x.example))
                         THEN {toTrainerFormat(generateFallbackExample)} ELSE {})

(***************************************************************************)
(* PrintGenerator.  A JavaScript number handed to the constructor is       *)
(* [tag, value]: undefined, an integer, or a non-integer (value + 1/2).    *)
(***************************************************************************)
DefaultExamplesCount == 20
DefaultActionsCount == 5
DefaultDigitCount == 1
DefaultMaxAttemptsPerExample == 100
MaxExamplesCount == 1000
MaxActionsCount == 20
MaxDigitCount == 9
FallbackActionsCount == 3

Undefined == [tag |-> "undefined", value |-> 0]

Integer(n) == [tag |-> "int", value |-> n]

Fraction(n) == [tag |-> "frac", value |-> n]

Truthy(x) == x.tag = "frac" \/ (x.tag = "int" /\ x.value # 0)

\* x || default
OrElse(x, default) == IF Truthy(x) THEN x ELSE Integer(default)

isInteger(x) == x.tag = "int"

PrintGenerator(config) ==
  [examplesCount |-> OrElse(config.examplesCount, DefaultExamplesCount),
   actionsCount |-> OrElse(config.actionsCount, DefaultActionsCount),
   digitCount |-> OrElse(config.digitCount, DefaultDigitCount),
   blocks |-> config.blocks,
   combineLevels |-> config.combineLevels,
   maxAttemptsPerExample |-> DefaultMaxAttemptsPerExample]

hasActiveBlock(blocks) ==
  \/ blocks.simple.digits # <<>>
  \/ blocks.brothers.digits # <<>>
  \/ blocks.friends.digits # <<>>
  \/ blocks.mix.digits # <<>>

\* validate() without the check that the friends block needs two columns.
PrintValidateNoFriendsCheck(config) ==
  /\ ~(~isInteger(config.examplesCount) \/ config.examplesCount.value < 1
         \/ config.examplesCount.value > MaxExamplesCount)
  /\ ~(~isInteger(config.actionsCount) \/ config.actionsCount.value < 1
         \/ config.actionsCount.value > MaxActionsCount)
  /\ ~(~isInteger(config.digitCount) \/ config.digitCount.value < 1
         \/ config.digitCount.value > MaxDigitCount)
  /\ hasActiveBlock(config.blocks)
  /\ ~(config.blocks.mix.digits # <<>> /\ config.digitCount.value < 2)

\* validate(): TRUE when it returns, FALSE when it throws.
PrintValidate(config) ==
  /\ ~(~isInteger(config.examplesCount) \/ config.examplesCount.value < 1
         \/ config.examplesCount.value > MaxExamplesCount)
  /\ ~(~isInteger(config.actionsCount) \/ config.actionsCount.value < 1
         \/ config.actionsCount.value > MaxActionsCount)
  /\ ~(~isInteger(config.digitCount) \/ config.digitCount.value < 1
         \/ config.digitCount.value > MaxDigitCount)
  /\ hasActiveBlock(config.blocks)
  /\ ~(config.blocks.friends.digits # <<>> /\ config.digitCount.value < 2)
  /\ ~(config.blocks.mix.digits # <<>> /\ config.digitCount.value < 2)

\* The settings _generateSingleExample hands to generateExample.
PrintSettings(config) ==
  [isNull |-> FALSE,
   digits |-> [finite |-> TRUE, value |-> config.digitCount.value],
   combineLevels |-> config.combineLevels,
   actions |-> [infinite |-> FALSE, min |-> Absent, max |-> Absent,
                count |-> config.actionsCount.value],
   blocks |-> config.blocks]

PrintExample(id, steps, answer, start) ==
  [id |-> id, steps |-> steps, answer |-> answer, start |-> start]

\* _generateFallbackExample(id)
PrintFallbackExample(config, id) ==
  LET actionsCount == Min(FallbackActionsCount, config.actionsCount.value)
      steps == [k \in 1..actionsCount |->
                  IF k - 1 = 0 THEN <<"+", "1">>
                  ELSE IF (k - 1) % 2 = 0 THEN <<"+", "2">> ELSE <<"-", "1">>]
  IN PrintExample(id, steps, SumTokens(steps), 0)

\* _generateSingleExample(id): the example returned and the number of
\* calls of generateExample made for it.
generateSingleExample(config, id) ==
  LET results == generateExampleResults(PrintSettings(config))
      good == {raw \in results : raw.steps # <<>>}
      retry == good # results
      calls == IF retry THEN 1..config.maxAttemptsPerExample ELSE {1}
  IN {[example |-> PrintExample(id, raw.steps, raw.answer, raw.start), calls |-> k] :
        raw \in good, k \in calls}
     \cup (IF retry
             THEN {[example |-> PrintFallbackExample(config, id),
                    calls |-> config.maxAttemptsPerExample]}
             ELSE {})

(***************************************************************************)
(* Inputs the model runs the generator on.                                 *)
(***************************************************************************)
MaxStepsBound == 2

NoFlags == <<FALSE, FALSE>>
AddOnly == <<TRUE, FALSE>>
SubOnly == <<FALSE, TRUE>>
BothFlags == <<TRUE, TRUE>>

\* <<minSteps, maxSteps>>
UpTo == <<1, MaxStepsBound>>
Exactly == <<MaxStepsBound, MaxStepsBound>>
One == <<1, 1>>
Inverted == <<MaxStepsBound + 1, MaxStepsBound>>

NoSimpleBlock == [present |-> FALSE, digits |-> <<>>]

SimpleBlock(digits) == [present |-> TRUE, digits |-> digits]

RawConfig(digits, simpleBlock, flags, steps, digitCount, combineLevels) ==
  [selectedDigits |-> digits,
   includeFive |-> FALSE,
   simpleBlock |-> simpleBlock,
   onlyAddition |-> flags[1],
   onlySubtraction |-> flags[2],
   minSteps |-> steps[1],
   maxSteps |-> steps[2],
   digitCount |-> digitCount,
   combineLevels |-> combineLevels]

DirectInput(kind, config, gen) == [kind |-> kind, config |-> config, gen |-> gen]

\* Rule classes with the digits they are given: <<kind, digits, simple block>>.
SingleColumnVariants ==
  {<<"Simple", <<1, 2, 3, 4>>, NoSimpleBlock>>,
   <<"Simple", <<2, 5, 7>>, NoSimpleBlock>>,
   <<"Brothers", <<4>>, SimpleBlock(<<1, 5>>)>>,
   <<"Brothers", <<1, 2>>, SimpleBlock(<<3>>)>>,
   <<"Friends", <<9>>, SimpleBlock(<<1, 5>>)>>,
   <<"Friends", <<5, 6>>, SimpleBlock(<<2, 5>>)>>,
   <<"Mix", <<6, 7>>, SimpleBlock(<<4, 9>>)>>}

FlaggedVariants ==
  {<<"Simple", <<4>>, NoSimpleBlock>>,
   <<"Brothers", <<4>>, SimpleBlock(<<1, 5>>)>>,
   <<"Friends", <<9>>, SimpleBlock(<<1, 5>>)>>,
   <<"Mix", <<6>>, SimpleBlock(<<4>>)>>}

VectorVariants ==
  {<<"Simple", <<1, 2>>, NoSimpleBlock>>,
   <<"Brothers", <<4>>, SimpleBlock(<<1, 5>>)>>,
   <<"Friends", <<9>>, SimpleBlock(<<1, 5>>)>>,
   <<"Mix", <<6>>, SimpleBlock(<<4>>)>>}

\* Rules handed to ExampleGenerator directly.
DirectInputs ==
  {DirectInput(v[1], RawConfig(v[2], v[3], NoFlags, UpTo, 1, FALSE), PlainRule) :
     v \in SingleColumnVariants}
  \cup
  {DirectInput(v[1], RawConfig(v[2], v[3], f, Exactly, 1, FALSE), PlainRule) :
     v \in FlaggedVariants, f \in {AddOnly, SubOnly, BothFlags}}
  \cup
  {DirectInput("Simple", RawConfig(<<1, 2, 3, 4>>, NoSimpleBlock, NoFlags, Inverted, 1, TRUE),
               PlainRule),
   DirectInput("Brothers", RawConfig(<<4>>, NoSimpleBlock, AddOnly, UpTo, 1, FALSE),
               PlainRule)}
  \cup
  {DirectInput(v[1], RawConfig(v[2], v[3], NoFlags, UpTo, dc, TRUE), PlainRule) :
     v \in VectorVariants, dc \in {2, 4}}
  \cup
  {DirectInput(v[1], RawConfig(v[2], v[3], NoFlags, One, 2, FALSE), PlainRule) :
     v \in VectorVariants}
  \cup
  {DirectInput("Simple", RawConfig(<<1>>, NoSimpleBlock, AddOnly, One, 4, FALSE), PlainRule),
   DirectInput("Simple", RawConfig(<<1, 2>>, NoSimpleBlock, SubOnly, UpTo, 2, FALSE), PlainRule),
   DirectInput("Brothers", RawConfig(<<4>>, SimpleBlock(<<5>>), NoFlags, Exactly, 2, FALSE),
               PlainRule)}
  \cup
  {DirectInput(v[1], RawConfig(v[2], v[3], NoFlags, One, 2, FALSE),
               MultiDigitGenerator(2, var)) :
     v \in VectorVariants, var \in BOOLEAN}

Block(digits, flags) ==
  [present |-> TRUE, digits |-> digits,
   onlyAddition |-> flags[1], onlySubtraction |-> flags[2]]

NoBlock ==
  [present |-> FALSE, digits |-> <<>>,
   onlyAddition |-> FALSE, onlySubtraction |-> FALSE]

Blocks(simple, brothers, friends, mix) ==
  [simple |-> simple, brothers |-> brothers, friends |-> friends, mix |-> mix]

Actions(infinite, min, max, count) ==
  [infinite |-> infinite, min |-> min, max |-> max, count |-> count]

NoSettings ==
  [isNull |-> TRUE,
   digits |-> [finite |-> FALSE, value |-> 0],
   combineLevels |-> FALSE,
   actions |-> Actions(FALSE, Absent, Absent, Absent),
   blocks |-> Blocks(NoBlock, NoBlock, NoBlock, NoBlock)]

Digits(value) == [finite |-> TRUE, value |-> value]

NaNDigits == [finite |-> FALSE, value |-> 0]

Count(n) == Actions(FALSE, Absent, Absent, n)

Settings(digits, combineLevels, actions, blocks) ==
  [isNull |-> FALSE, digits |-> digits, combineLevels |-> combineLevels,
   actions |-> actions, blocks |-> blocks]

OnlySimple(digits, flags) == Blocks(Block(digits, flags), NoBlock, NoBlock, NoBlock)

SettingsInputs ==
  {Settings(d, FALSE, Count(MaxStepsBound), OnlySimple(<<1, 2, 3, 4>>, NoFlags)) :
     d \in {NaNDigits, Digits(0), Digits(1)}}
  \cup
  {Settings(Digits(1), FALSE, Count(MaxStepsBound), OnlySimple(<<1, 2, 3, 4>>, f)) :
     f \in {AddOnly, SubOnly, BothFlags}}
  \cup
  {Settings(Digits(1), cl, Count(MaxStepsBound),
            Blocks(Block(<<1, 5>>, NoFlags), Block(<<4>>, f), NoBlock, NoBlock)) :
     f \in {NoFlags, SubOnly}, cl \in BOOLEAN}
  \cup
  {Settings(Digits(1), FALSE, Count(MaxStepsBound),
            Blocks(Block(<<1, 5>>, NoFlags), Block(<<4>>, NoFlags), Block(<<9>>, NoFlags),
                   NoBlock)),
   Settings(Digits(1), FALSE, Count(MaxStepsBound),
            Blocks(Block(<<4>>, NoFlags), NoBlock, Block(<<9>>, NoFlags),
                   Block(<<7>>, NoFlags))),
   Settings(Digits(1), FALSE, Count(MaxStepsBound),
            Blocks(NoBlock, Block(<<7>>, NoFlags), NoBlock, NoBlock)),
   Settings(Digits(1), FALSE, Count(1), Blocks(NoBlock, NoBlock, NoBlock, NoBlock)),
   Settings(Digits(1), FALSE, Actions(FALSE, 1, MaxStepsBound, Absent),
            OnlySimple(<<2, 5, 7>>, NoFlags)),
   Settings(Digits(1), FALSE, Actions(FALSE, 0, 0, Absent), OnlySimple(<<1, 2>>, NoFlags))}
  \cup
  {Settings(Digits(1), FALSE, a, OnlySimple(<<4>>, f)) :
     a \in {Actions(TRUE, Absent, Absent, Absent), Actions(FALSE, Absent, Absent, Absent)},
     f \in {NoFlags, AddOnly}}
  \cup
  {Settings(Digits(2), cl, Count(1), OnlySimple(<<1, 2>>, NoFlags)) : cl \in BOOLEAN}
  \cup
  {Settings(Digits(2), TRUE, Count(MaxStepsBound),
            Blocks(Block(<<1>>, NoFlags), Block(<<4>>, NoFlags), NoBlock, NoBlock)),
   Settings(Digits(2), TRUE, Count(1),
            Blocks(Block(<<4>>, NoFlags), NoBlock, NoBlock, Block(<<6>>, NoFlags))),
   Settings(Digits(2), TRUE, Count(MaxStepsBound), OnlySimple(<<1, 2>>, SubOnly))}
  \cup {NoSettings}

PrintInput(examplesCount, actionsCount, digitCount, blocks, combineLevels) ==
  [examplesCount |-> examplesCount, actionsCount |-> actionsCount,
   digitCount |-> digitCount, blocks |-> blocks, combineLevels |-> combineLevels]

NoPrintInput ==
  PrintInput(Undefined, Undefined, Undefined, Blocks(NoBlock, NoBlock, NoBlock, NoBlock), FALSE)

ExamplesCounts ==
  {Undefined, Fraction(MaxStepsBound), Integer(0 - 1), Integer(0), Integer(1), Integer(MaxStepsBound),
   Integer(MaxExamplesCount + 1)}

ActionsCounts ==
  {Undefined, Fraction(MaxStepsBound), Integer(0 - 1), Integer(0), Integer(1),
   Integer(MaxStepsBound), Integer(MaxActionsCount + 1)}

DigitCounts ==
  {Undefined, Fraction(MaxStepsBound), Integer(0 - 1), Integer(0), Integer(1), Integer(MaxStepsBound),
   Integer(MaxDigitCount + 1)}

PrintInputs ==
  {PrintInput(e, a, d, b, FALSE) :
     e \in ExamplesCounts, a \in ActionsCounts, d \in DigitCounts,
     b \in {OnlySimple(<<4>>, AddOnly), Blocks(NoBlock, NoBlock, NoBlock, NoBlock)}}
  \cup
  {PrintInput(Integer(e), Integer(a), Integer(d), b, cl) :
     e \in 1..MaxStepsBound, a \in 1..MaxStepsBound, d \in 1..MaxStepsBound,
     cl \in BOOLEAN,
     b \in {OnlySimple(<<1, 2, 3, 4>>, NoFlags),
            Blocks(Block(<<1, 5>>, NoFlags), Block(<<4>>, NoFlags), NoBlock, NoBlock),
            Blocks(Block(<<1, 5>>, NoFlags), NoBlock, Block(<<9>>, NoFlags), NoBlock),
            Blocks(Block(<<4>>, NoFlags), NoBlock, NoBlock, Block(<<6>>, NoFlags))}}

(***************************************************************************)
(* The state machine.                                                      *)
(***************************************************************************)
VARIABLES
  caller,      \* "direct": ExampleGenerator.generate is called with a rule;
               \* "generateExample": the top-level function is called
  settings,    \* the argument of generateExample
  gen,         \* the MultiDigitGenerator wrapper, or PlainRule
  rule,        \* the rule (the base rule under a wrapper)
  pc,          \* where the call is
  attempt,     \* the attempt loop's counter
  stepsCount,  \* MultiDigitGenerator.generateExample's stepsCount
  result,      \* what ExampleGenerator.generate returned
  formatted,   \* what generateExample returned
  printInput,  \* the config handed to new PrintGenerator(config)
  printConfig, \* PrintGenerator's this.config
  printPc,     \* where PrintGenerator.generate is
  examples,    \* PrintGenerator.generate's examples array
  calls,       \* the number of calls of generateExample made so far
  method,      \* the rule method called on its own
  args,        \* its receiver and arguments
  returned,    \* whether it has returned
  value        \* what it returned

genVars == <<caller, settings, gen, rule, pc, attempt, stepsCount, result, formatted>>

printVars == <<printInput, printConfig, printPc, examples, calls>>

methodVars == <<method, args, returned, value>>

vars == <<genVars, printVars, methodVars>>

NoRule == NewRule("Simple", RawConfig(<<>>, NoSimpleBlock, NoFlags, <<0, 0>>, 1, FALSE))

PrintIdle ==
  /\ printInput = NoPrintInput
  /\ printConfig = PrintGenerator(NoPrintInput)
  /\ printPc = "idle"
  /\ examples = <<>>
  /\ calls = 0

MethodIdle ==
  /\ method = "none"
  /\ args = <<>>
  /\ returned = FALSE
  /\ value = <<>>

GeneratorIdle ==
  /\ settings = NoSettings
  /\ rule = NoRule
  /\ gen = PlainRule
  /\ pc = "idle"
  /\ attempt = 0
  /\ stepsCount = 0
  /\ result = NoExample
  /\ formatted = NoFormatted

Init ==
  /\ PrintIdle
  /\ MethodIdle
  /\ attempt = 0
  /\ stepsCount = 0
  /\ result = NoExample
  /\ formatted = NoFormatted
  /\ \/ /\ caller = "direct"
        /\ settings = NoSettings
        /\ \E input \in DirectInputs :
             /\ rule = NewRule(input.kind, input.config)
             /\ gen = input.gen
        /\ pc = "generate"
     \/ /\ caller = "generateExample"
        /\ settings \in SettingsInputs
        /\ rule = NoRule
        /\ gen = PlainRule
        /\ pc = "generateExample"

\* generateExample, lines 31-241: build the rule and the generator.
BuildRule ==
  /\ pc = "generateExample"
  /\ ~settings.isNull
  /\ rule' = SettingsRule(settings)
  /\ gen' = SettingsGenerator(settings)
  /\ pc' = "generate"
  /\ UNCHANGED <<caller, settings, attempt, stepsCount, result, formatted>>
  /\ UNCHANGED printVars
  /\ UNCHANGED methodVars

\* generateExample: reading settings.blocks of null throws inside the try.
BuildRuleThrows ==
  /\ pc = "generateExample"
  /\ settings.isNull
  /\ pc' = "settingsThrew"
  /\ UNCHANGED <<caller, settings, gen, rule, attempt, stepsCount, result, formatted>>
  /\ UNCHANGED printVars
  /\ UNCHANGED methodVars

\* ExampleGenerator.generate, lines 284-307, for a plain rule.
EnterLoop ==
  /\ pc = "generate"
  /\ ~gen.multi
  /\ attempt' = 1
  /\ pc' = "loop"
  /\ UNCHANGED <<caller, settings, gen, rule, stepsCount, result, formatted>>
  /\ UNCHANGED printVars
  /\ UNCHANGED methodVars

\* One pass of the loop of generate that returns a validated example.
AttemptReturns ==
  /\ pc = "loop"
  /\ attempt <= maxAttempts(rule)
  /\ \E n \in StepsCounts(rule) : \E out \in AttemptOutcomes(rule, n) :
       /\ ~out.threw
       /\ validateExample(rule, Truncate(rule, out.example))
       /\ result' = Truncate(rule, out.example)
  /\ pc' = "returned"
  /\ UNCHANGED <<caller, settings, gen, rule, attempt, stepsCount, formatted>>
  /\ UNCHANGED printVars
  /\ UNCHANGED methodVars

\* One pass whose example fails validateExample: continue.
AttemptInvalid ==
  /\ pc = "loop"
  /\ attempt <= maxAttempts(rule)
  /\ \E n \in StepsCounts(rule) : \E out \in AttemptOutcomes(rule, n) :
       /\ ~out.threw
       /\ ~validateExample(rule, Truncate(rule, out.example))
  /\ attempt' = attempt + 1
  /\ UNCHANGED <<caller, settings, gen, rule, pc, stepsCount, result, formatted>>
  /\ UNCHANGED printVars
  /\ UNCHANGED methodVars

\* One pass that throws (no available action): caught, next attempt.
AttemptThrows ==
  /\ pc = "loop"
  /\ attempt <= maxAttempts(rule)
  /\ \E n \in StepsCounts(rule) : \E out \in AttemptOutcomes(rule, n) : out.threw
  /\ attempt' = attempt + 1
  /\ UNCHANGED <<caller, settings, gen, rule, pc, stepsCount, result, formatted>>
  /\ UNCHANGED printVars
  /\ UNCHANGED methodVars

\* After the loop: the fallback example.
ReturnFallback ==
  /\ pc = "loop"
  /\ attempt > maxAttempts(rule)
  /\ result' = generateFallbackExample
  /\ pc' = "returned"
  /\ UNCHANGED <<caller, settings, gen, rule, attempt, stepsCount, formatted>>
  /\ UNCHANGED printVars
  /\ UNCHANGED methodVars

\* generate delegates to MultiDigitGenerator.generateExample, which draws
\* stepsCount once.
EnterMultiDigit ==
  /\ pc = "generate"
  /\ gen.multi
  /\ stepsCount' \in StepsCounts(rule)
  /\ attempt' = 1
  /\ pc' = "multiLoop"
  /\ UNCHANGED <<caller, settings, gen, rule, result, formatted>>
  /\ UNCHANGED printVars
  /\ UNCHANGED methodVars

MultiDigitAttemptReturns ==
  /\ pc = "multiLoop"
  /\ attempt <= MultiDigitAttempts
  /\ \E out \in generateAttempt(gen, rule, stepsCount) :
       /\ ~out.threw
       /\ validateExample(rule, out.example)
       /\ result' = out.example
  /\ pc' = "returned"
  /\ UNCHANGED <<caller, settings, gen, rule, attempt, stepsCount, formatted>>
  /\ UNCHANGED printVars
  /\ UNCHANGED methodVars

MultiDigitAttemptInvalid ==
  /\ pc = "multiLoop"
  /\ attempt <= MultiDigitAttempts
  /\ \E out \in generateAttempt(gen, rule, stepsCount) :
       /\ ~out.threw
       /\ ~validateExample(rule, out.example)
  /\ attempt' = attempt + 1
  /\ UNCHANGED <<caller, settings, gen, rule, pc, stepsCount, result, formatted>>
  /\ UNCHANGED printVars
  /\ UNCHANGED methodVars

MultiDigitAttemptThrows ==
  /\ pc = "multiLoop"
  /\ attempt <= MultiDigitAttempts
  /\ \E out \in generateAttempt(gen, rule, stepsCount) : out.threw
  /\ attempt' = attempt + 1
  /\ UNCHANGED <<caller, settings, gen, rule, pc, stepsCount, result, formatted>>
  /\ UNCHANGED printVars
  /\ UNCHANGED methodVars

\* MultiDigitGenerator.generateExample, line 112: the error leaves
\* ExampleGenerator.generate.
MultiDigitGiveUp ==
  /\ pc = "multiLoop"
  /\ attempt > MultiDigitAttempts
  /\ pc' = "threw"
  /\ UNCHANGED <<caller, settings, gen, rule, attempt, stepsCount, result, formatted>>
  /\ UNCHANGED printVars
  /\ UNCHANGED methodVars

\* generateExample, lines 252-259.
Format ==
  /\ caller = "generateExample"
  /\ pc = "returned"
  /\ formatted' = toTrainerFormat(result)
  /\ pc' = "done"
  /\ UNCHANGED <<caller, settings, gen, rule, attempt, stepsCount, result>>
  /\ UNCHANGED printVars
  /\ UNCHANGED methodVars

\* generateExample, lines 260-271.
Catch ==
  /\ caller = "generateExample"
  /\ pc \in {"threw", "settingsThrew"}
  /\ formatted' = generateExampleFallback
  /\ pc' = "done"
  /\ UNCHANGED <<caller, settings, gen, rule, attempt, stepsCount, result>>
  /\ UNCHANGED printVars
  /\ UNCHANGED methodVars

Next ==
  \/ BuildRule
  \/ BuildRuleThrows
  \/ EnterLoop
  \/ AttemptReturns
  \/ AttemptInvalid
  \/ AttemptThrows
  \/ ReturnFallback
  \/ EnterMultiDigit
  \/ MultiDigitAttemptReturns
  \/ MultiDigitAttemptInvalid
  \/ MultiDigitAttemptThrows
  \/ MultiDigitGiveUp
  \/ Format
  \/ Catch

Spec == Init /\ [][Next]_vars

(***************************************************************************)
(* PrintGenerator: new PrintGenerator(config).generate().                  *)
(***************************************************************************)
PrintInit ==
  /\ caller = "print"
  /\ GeneratorIdle
  /\ MethodIdle
  /\ printInput \in PrintInputs
  /\ printConfig = PrintGenerator(printInput)
  /\ printPc = "generate"
  /\ examples = <<>>
  /\ calls = 0

\* generate, lines 69-74: validate() throws and the error is rethrown.
PrintValidateThrows ==
  /\ printPc = "generate"
  /\ ~PrintValidate(printConfig)
  /\ printPc' = "threw"
  /\ UNCHANGED <<printInput, printConfig, examples, calls>>
  /\ UNCHANGED genVars
  /\ UNCHANGED methodVars

\* generate, lines 69-77: validate() returns.
PrintValidateReturns ==
  /\ printPc = "generate"
  /\ PrintValidate(printConfig)
  /\ printPc' = "loop"
  /\ UNCHANGED <<printInput, printConfig, examples, calls>>
  /\ UNCHANGED genVars
  /\ UNCHANGED methodVars

\* One pass of the loop that hands i, not i + 1, to _generateSingleExample.
PrintGenerateOneZeroBased ==
  /\ printPc = "loop"
  /\ Len(examples) < printConfig.examplesCount.value
  /\ \E out \in generateSingleExample(printConfig, Len(examples)) :
       /\ examples' = Append(examples, out.example)
       /\ calls' = calls + out.calls
  /\ UNCHANGED <<printInput, printConfig, printPc>>
  /\ UNCHANGED genVars
  /\ UNCHANGED methodVars

\* generate, lines 79-97: one pass of the loop, i = examples.length.
PrintGenerateOne ==
  /\ printPc = "loop"
  /\ Len(examples) < printConfig.examplesCount.value
  /\ \E out \in generateSingleExample(printConfig, Len(examples) + 1) :
       /\ examples' = Append(examples, out.example)
       /\ calls' = calls + out.calls
  /\ UNCHANGED <<printInput, printConfig, printPc>>
  /\ UNCHANGED genVars
  /\ UNCHANGED methodVars

\* generate, line 105.
PrintReturn ==
  /\ printPc = "loop"
  /\ Len(examples) >= printConfig.examplesCount.value
  /\ printPc' = "returned"
  /\ UNCHANGED <<printInput, printConfig, examples, calls>>
  /\ UNCHANGED genVars
  /\ UNCHANGED methodVars

PrintNext ==
  \/ PrintValidateThrows
  \/ PrintValidateReturns
  \/ PrintGenerateOne
  \/ PrintReturn

PrintSpec == PrintInit /\ [][PrintNext]_vars

(***************************************************************************)
(* ExampleGenerator.generate with the Simple rule and longer examples.     *)
(***************************************************************************)
Longer == <<MaxStepsBound + 1, MaxStepsBound + 1>>

SimpleInputs ==
  {RawConfig(<<1, 2, 3, 4>>, NoSimpleBlock, f, Longer, 1, FALSE) :
     f \in {NoFlags, AddOnly, SubOnly}}
  \cup
  {RawConfig(<<2, 5, 7>>, NoSimpleBlock, NoFlags, <<1, MaxStepsBound + 1>>, 1, FALSE)}
  \cup
  {RawConfig(<<1, 2>>, NoSimpleBlock, NoFlags, One, 2, TRUE)}

SimpleInit ==
  /\ PrintIdle
  /\ MethodIdle
  /\ caller = "direct"
  /\ settings = NoSettings
  /\ gen = PlainRule
  /\ \E config \in SimpleInputs : rule = UnifiedSimpleRule(config)
  /\ pc = "generate"
  /\ attempt = 0
  /\ stepsCount = 0
  /\ result = NoExample
  /\ formatted = NoFormatted

LoopNext ==
  \/ EnterLoop
  \/ AttemptReturns
  \/ AttemptInvalid
  \/ AttemptThrows
  \/ ReturnFallback

SimpleSpec == SimpleInit /\ [][LoopNext]_vars

(***************************************************************************)
(* The methods of a rule, called on their own.                             *)
(***************************************************************************)
Call(name, a) == [method |-> name, args |-> a]

MethodRules ==
  {NewRule(v[1], RawConfig(v[2], v[3], f, UpTo, 1, FALSE)) :
     v \in SingleColumnVariants, f \in {NoFlags, AddOnly, SubOnly, BothFlags}}

GetAvailableActionsCalls ==
  UNION {{Call("getAvailableActions", [rule |-> r, state |-> st, isFirst |-> first]) :
            st \in r.minState..r.maxState, first \in BOOLEAN} : r \in MethodRules}

ExampleActions == {0 - 9, 0 - 5, 0 - 4, 0 - 1, 1, 4, 5, 9}

\* Examples of one or two steps from start 0, with the answer right or
\* off by one.
RECURSIVE StepsFrom(_, _)
StepsFrom(state, actions) ==
  IF actions = <<>> THEN <<>>
  ELSE <<Step(state, Head(actions))>> \o StepsFrom(state + Head(actions), Tail(actions))

ExampleInputs ==
  {Example(0, StepsFrom(0, acts), SumActions(StepsFrom(0, acts)) + off) :
     acts \in {<<a>> : a \in ExampleActions}
              \cup {<<a, b>> : a \in ExampleActions, b \in ExampleActions},
     off \in {0, 1}}

ValidateExampleCalls ==
  {Call("validateExample", [rule |-> r, example |-> e]) :
     r \in MethodRules, e \in ExampleInputs}

FriendsMethodRules == {r \in MethodRules : r.kind = "Friends" /\ ~r.onlyAddition
                                              /\ ~r.onlySubtraction}

IsFriendTransitionCalls ==
  {Call("isFriendTransition", [rule |-> r, from |-> from, to |-> from + delta]) :
     r \in FriendsMethodRules, from \in 0..99,
     delta \in {d \in (0 - 9)..9 : d # 0}}

BrothersMethodRules ==
  {r \in MethodRules : r.kind = "Brothers" /\ ~r.onlyAddition /\ ~r.onlySubtraction}
    \cup {BrothersRule(RawConfig(<<1, 2, 3, 4>>, NoSimpleBlock, NoFlags, UpTo, 1, FALSE))}

BrothersDecomposeActionCalls ==
  {Call("Brothers.decomposeAction", [rule |-> r, state |-> state, action |-> action]) :
     r \in BrothersMethodRules, state \in 0..9,
     action \in {a \in (0 - 9)..9 : a # 0}}

MixMethodRules ==
  {r \in MethodRules : r.kind = "Mix" /\ ~r.onlyAddition /\ ~r.onlySubtraction}
    \cup {MixRule(RawConfig(<<6, 7, 8, 9>>, NoSimpleBlock, NoFlags, UpTo, 2, FALSE))}

MixDecomposeActionCalls ==
  {Call("Mix.decomposeAction", [rule |-> r, action |-> action]) :
     r \in MixMethodRules, action \in {a \in (0 - 10)..10 : a # 0}}

MultiDigitBaseRules ==
  {BrothersRule(RawConfig(<<0, 4>>, NoSimpleBlock, NoFlags, UpTo, 1, FALSE)),
   BrothersRule(RawConfig(<<4, 0>>, NoSimpleBlock, SubOnly, UpTo, 1, FALSE)),
   FriendsRule(RawConfig(<<9>>, NoSimpleBlock, AddOnly, UpTo, 1, FALSE)),
   FriendsRule(RawConfig(<<9, 1>>, NoSimpleBlock, BothFlags, UpTo, 1, FALSE)),
   UnifiedSimpleRule(RawConfig(<<0, 1, 2>>, NoSimpleBlock, NoFlags, UpTo, 1, FALSE)),
   UnifiedSimpleRule(RawConfig(<<1, 2, 3, 4, 5>>, NoSimpleBlock, NoFlags, UpTo, 1, FALSE))}

GenerateMultiDigitActionCalls ==
  {Call("generateMultiDigitAction",
        [gen |-> MultiDigitGenerator(2, v), rule |-> r, currentState |-> c,
         isFirst |-> f, zeroDigitsUsed |-> z]) :
     v \in BOOLEAN, r \in MultiDigitBaseRules, c \in {0, 5, 44}, f \in BOOLEAN,
     z \in 0..maxZeroDigits}
    \cup {Call("generateMultiDigitAction",
                [gen |-> MultiDigitGenerator(1, FALSE), rule |-> r, currentState |-> c,
                 isFirst |-> FALSE, zeroDigitsUsed |-> 0]) :
             r \in MultiDigitBaseRules, c \in {3, 90, 99}}

GenerateAttemptCalls ==
  {Call("generateAttempt",
        [gen |-> MultiDigitGenerator(2, FALSE), rule |-> r, stepsCount |-> n]) :
     r \in MultiDigitBaseRules, n \in 1..MaxStepsBound}
    \cup {Call("generateAttempt",
                [gen |-> MultiDigitGenerator(1, FALSE),
                 rule |-> FriendsRule(RawConfig(<<9>>, NoSimpleBlock, AddOnly,
                                                UpTo, 1, FALSE)),
                 stepsCount |-> n]) : n \in {11, 12}}

MultiDigitGenerateExampleCalls ==
  {Call("MultiDigitGenerator.generateExample",
        [gen |-> MultiDigitGenerator(2, v), rule |-> r]) :
     v \in BOOLEAN,
     r \in {UnifiedSimpleRule(RawConfig(<<1, 2, 3, 4, 5>>, NoSimpleBlock, NoFlags,
                                        UpTo, dc, FALSE)) : dc \in {1, 2}}
          \cup {FriendsRule(RawConfig(<<9, 1>>, NoSimpleBlock, NoFlags, UpTo, 1, FALSE))}}

IsBrotherTransitionCalls ==
  {Call("isBrotherTransition", [rule |-> r, from |-> from, to |-> from + delta]) :
     r \in BrothersMethodRules, from \in 0..9,
     delta \in {d \in (0 - 9)..9 : d # 0}}

IsPhysicallyPossibleCalls ==
  {Call("isPhysicallyPossible", [rule |-> r, state |-> state, action |-> action]) :
     r \in {x \in MethodRules : x.kind = "Simple" /\ ~x.onlyAddition /\ ~x.onlySubtraction},
     state \in 0..9, action \in {a \in (0 - 9)..9 : a # 0}}

IsMixTransitionCalls ==
  {Call("isMixTransition", [rule |-> r, from |-> from, to |-> from + delta]) :
     r \in MixMethodRules, from \in 0..99,
     delta \in {d \in (0 - 9)..9 : Abs(d) >= 6}}

MethodCalls ==
  GetAvailableActionsCalls \cup ValidateExampleCalls \cup IsFriendTransitionCalls
    \cup BrothersDecomposeActionCalls \cup MixDecomposeActionCalls
    \cup GenerateMultiDigitActionCalls \cup GenerateAttemptCalls
    \cup MultiDigitGenerateExampleCalls \cup IsBrotherTransitionCalls
    \cup IsPhysicallyPossibleCalls \cup IsMixTransitionCalls

MethodInit ==
  /\ caller = "method"
  /\ GeneratorIdle
  /\ PrintIdle
  /\ \E c \in MethodCalls : method = c.method /\ args = c.args
  /\ returned = FALSE
  /\ value = <<>>

\* rule.getAvailableActions(state, isFirst)
CallGetAvailableActions ==
  /\ method = "getAvailableActions"
  /\ ~returned
  /\ value' = getAvailableActions(args.rule, args.state, args.isFirst)
  /\ returned' = TRUE
  /\ UNCHANGED <<method, args>>
  /\ UNCHANGED genVars
  /\ UNCHANGED printVars

\* rule.validateExample(example)
CallValidateExample ==
  /\ method = "validateExample"
  /\ ~returned
  /\ value' = validateExample(args.rule, args.example)
  /\ returned' = TRUE
  /\ UNCHANGED <<method, args>>
  /\ UNCHANGED genVars
  /\ UNCHANGED printVars

\* rule._isFriendTransition(from, to)
CallIsFriendTransition ==
  /\ method = "isFriendTransition"
  /\ ~returned
  /\ value' = isFriendTransition(args.rule, args.from, args.to)
  /\ returned' = TRUE
  /\ UNCHANGED <<method, args>>
  /\ UNCHANGED genVars
  /\ UNCHANGED printVars

\* brothersRule.decomposeAction(state, action)
CallBrothersDecomposeAction ==
  /\ method = "Brothers.decomposeAction"
  /\ ~returned
  /\ value' = BrothersDecomposeAction(args.rule, args.state, args.action)
  /\ returned' = TRUE
  /\ UNCHANGED <<method, args>>
  /\ UNCHANGED genVars
  /\ UNCHANGED printVars

\* mixRule.decomposeAction(action)
CallMixDecomposeAction ==
  /\ method = "Mix.decomposeAction"
  /\ ~returned
  /\ value' = MixDecomposeAction(args.rule, args.action)
  /\ returned' = TRUE
  /\ UNCHANGED <<method, args>>
  /\ UNCHANGED genVars
  /\ UNCHANGED printVars

\* multiDigitGenerator._generateMultiDigitAction(currentState, isFirst), with
\* config._zeroDigitsUsed as it stands at the call.
CallGenerateMultiDigitAction ==
  /\ method = "generateMultiDigitAction"
  /\ ~returned
  /\ \E r \in generateMultiDigitAction(args.gen, args.rule, args.currentState,
                                       args.isFirst, args.zeroDigitsUsed) :
       value' = r
  /\ returned' = TRUE
  /\ UNCHANGED <<method, args>>
  /\ UNCHANGED genVars
  /\ UNCHANGED printVars

\* multiDigitGenerator._generateAttempt(stepsCount)
CallGenerateAttempt ==
  /\ method = "generateAttempt"
  /\ ~returned
  /\ \E r \in generateAttempt(args.gen, args.rule, args.stepsCount) : value' = r
  /\ returned' = TRUE
  /\ UNCHANGED <<method, args>>
  /\ UNCHANGED genVars
  /\ UNCHANGED printVars

\* multiDigitGenerator.generateExample()
CallMultiDigitGenerateExample ==
  /\ method = "MultiDigitGenerator.generateExample"
  /\ ~returned
  /\ \E r \in MultiDigitGenerateExample(args.gen, args.rule) : value' = r
  /\ returned' = TRUE
  /\ UNCHANGED <<method, args>>
  /\ UNCHANGED genVars
  /\ UNCHANGED printVars

\* brothersRule._isBrotherTransition(from, to)
CallIsBrotherTransition ==
  /\ method = "isBrotherTransition"
  /\ ~returned
  /\ value' = isBrotherTransition(args.rule, args.from, args.to)
  /\ returned' = TRUE
  /\ UNCHANGED <<method, args>>
  /\ UNCHANGED genVars
  /\ UNCHANGED printVars

\* unifiedSimpleRule.isPhysicallyPossible(state, action)
CallIsPhysicallyPossible ==
  /\ method = "isPhysicallyPossible"
  /\ ~returned
  /\ value' = isPhysicallyPossible(args.rule, args.state, args.action)
  /\ returned' = TRUE
  /\ UNCHANGED <<method, args>>
  /\ UNCHANGED genVars
  /\ UNCHANGED printVars

\* mixRule._isMixTransition(from, to)
CallIsMixTransition ==
  /\ method = "isMixTransition"
  /\ ~returned
  /\ value' = isMixTransition(args.rule, args.from, args.to)
  /\ returned' = TRUE
  /\ UNCHANGED <<method, args>>
  /\ UNCHANGED genVars
  /\ UNCHANGED printVars

MethodNext ==
  \/ CallIsMixTransition
  \/ CallIsPhysicallyPossible
  \/ CallIsBrotherTransition
  \/ CallMultiDigitGenerateExample
  \/ CallGenerateAttempt
  \/ CallGenerateMultiDigitAction
  \/ CallBrothersDecomposeAction
  \/ CallMixDecomposeAction
  \/ CallIsFriendTransition
  \/ CallGetAvailableActions
  \/ CallValidateExample

MethodSpec == MethodInit /\ [][MethodNext]_vars

\* The same behaviours, with every enabled step eventually taken: a call
\* that has started keeps running.
FairSpec == Spec /\ WF_vars(Next)

(***************************************************************************)
(* The claims.                                                             *)
(***************************************************************************)

\* C1: every Example returned by ExampleGenerator.generate has
\* answer = start + the sum of its steps' actions.
C1_AnswerIsStartPlusSum ==
  pc = "returned" => result.answer = result.start + SumActions(result.steps)

\* C2: for a Brothers, Friends or Mix rule, every Example returned by
\* ExampleGenerator.generate contains a step that is a signature transition
\* of the rule.
C2_ReturnedHasSignatureStep ==
  (pc = "returned" /\ rule.kind \in {"Brothers", "Friends", "Mix"})
    => hasSignatureStep(rule, result)

\* C3: with onlySubtraction = true, no Example returned by
\* ExampleGenerator.generate, and no result of generateExample, has a
\* positive step.
C3_OnlySubtractionNoPositive ==
  rule.onlySubtraction =>
    /\ pc = "returned" => ~hasPositive(result)
    /\ (caller = "generateExample" /\ pc = "done") =>
         \A i \in DOMAIN formatted.steps : Head(formatted.steps[i]) # "+"

\* C4: with onlyAddition = true, no Example returned by
\* ExampleGenerator.generate has a negative step.
C4_OnlyAdditionNoNegative ==
  (rule.onlyAddition /\ pc = "returned") => ~hasNegative(result)

ClaimedMaxState(r) ==
  CASE r.kind = "Simple" /\ ~r.includeFive -> 4
    [] r.kind = "Simple" /\ r.includeFive -> 9
    [] r.kind = "Brothers" -> 9
    [] OTHER -> 99

\* C5: for a single-column rule (digitCount = 1), every prefix running sum
\* of a returned Example lies in [0,4] for four-bead Simple, [0,9] for
\* five-bead Simple and Brothers, [0,99] for Friends and Mix.
C5_PrefixSumsWithinBounds ==
  (pc = "returned" /\ ~gen.multi /\ digitCountOf(rule) = 1) =>
    \A k \in 0..Len(result.steps) :
      StateAfter(result, k) >= 0 /\ StateAfter(result, k) <= ClaimedMaxState(rule)

\* C5 witness: a returned Friends example that is not the fallback and
\* whose running sum enters the second column.
C5_Witness ==
  /\ pc = "returned" /\ ~gen.multi /\ digitCountOf(rule) = 1
  /\ rule.kind = "Friends"
  /\ attempt <= maxAttempts(rule)
  /\ \E k \in DOMAIN result.steps : StateAfter(result, k) >= 10

IsFixedFallback(example) ==
  /\ example.start = 0
  /\ example.answer = 1
  /\ [i \in DOMAIN example.steps |-> example.steps[i].action] = <<1, 1, 0 - 1>>

\* C6: when every attempt of the loop of ExampleGenerator.generate has
\* failed, generate returns the fixed fallback {start 0, +1, +1, -1,
\* answer 1}; the loop raises no error.
C6_ExhaustedLoopReturnsFallback ==
  ~gen.multi =>
    /\ pc # "threw"
    /\ (pc = "loop" /\ attempt > maxAttempts(rule)) => ENABLED ReturnFallback
    /\ (pc = "returned" /\ attempt > maxAttempts(rule)) => IsFixedFallback(result)

\* C6 witness: generate has returned after its last attempt failed.
C6_Witness ==
  /\ pc = "returned" /\ ~gen.multi
  /\ attempt > maxAttempts(rule)
  /\ rule.onlyAddition /\ rule.onlySubtraction

\* C7: no exception leaves ExampleGenerator.generate, whatever rule it is
\* given.
C7_NoExceptionEscapes == pc # "threw"

ClaimedBudget(r) ==
  IF digitCountOf(r) = 1 THEN 100
  ELSE IF r.combineLevels THEN (IF digitCountOf(r) <= 3 THEN 200 ELSE 250)
  ELSE (IF digitCountOf(r) <= 3 THEN 400 ELSE 500)

C8_LoopStep ==
  (pc = "loop" /\ ~gen.multi) =>
    \/ /\ pc' = "loop"
       /\ attempt <= ClaimedBudget(rule)
       /\ attempt' = attempt + 1
    \/ /\ pc' = "returned"
       /\ attempt <= ClaimedBudget(rule)
       /\ validateExample(rule, result')
    \/ /\ pc' = "returned"
       /\ attempt = ClaimedBudget(rule) + 1
       /\ IsFixedFallback(result')

\* C8: the loop of ExampleGenerator.generate makes at most B attempts
\* (100; 200 or 250 in lock-step; 400 or 500 with independent columns),
\* returns the first attempt that validates, else the fallback after
\* attempt B, and the call always ends.
C8_TerminatesWithinBudget ==
  /\ [][C8_LoopStep]_vars
  /\ <>(pc \in {"returned", "threw", "done"})

\* C8 witness: a rule with independent columns returned the fallback after
\* its doubled budget.
C8_Witness ==
  /\ pc = "returned" /\ ~gen.multi
  /\ digitCountOf(rule) > 1 /\ ~rule.combineLevels
  /\ attempt = ClaimedBudget(rule) + 1

IsSignedToken(token) ==
  /\ Len(token) >= 2
  /\ token[1] \in {"+", "-"}
  /\ \A j \in 2..Len(token) : IsDigitChar(token[j])

WellFormed(example) ==
  /\ example.steps # <<>>
  /\ \A i \in DOMAIN example.steps : IsSignedToken(example.steps[i])
  /\ SumTokens(example.steps) = example.answer - example.start

\* C9: generateExample(settings) never throws and returns a result with a
\* non-empty list of "+N" / "-N" tokens whose values sum to answer - start,
\* also when the inner generator exhausts its budget or throws.
C9_GenerateExampleWellFormed ==
  caller = "generateExample" =>
    /\ pc \in {"threw", "settingsThrew"} => ENABLED Catch
    /\ pc = "returned" => ENABLED Format
    /\ pc = "done" => WellFormed(formatted)

\* C9 witness: generateExample returned after the wrapped generator threw.
C9_Witness ==
  /\ caller = "generateExample" /\ pc = "done"
  /\ gen.multi /\ attempt > MultiDigitAttempts
  /\ WellFormed(formatted)

ClaimedInvalid(x, hi) ==
  \/ x.tag = "frac"
  \/ x.tag = "int" /\ (x.value < 1 \/ x.value > hi)

\* C10: a PrintGenerator constructed with examplesCount outside [1,1000],
\* actionsCount outside [1,20] or digitCount outside [1,9] (0, negative
\* and non-integer values included) makes generate() raise before any call
\* of generateExample, and return no examples.
C10_InvalidCountsRaiseFirst ==
  (\/ ClaimedInvalid(printInput.examplesCount, 1000)
   \/ ClaimedInvalid(printInput.actionsCount, 20)
   \/ ClaimedInvalid(printInput.digitCount, 9))
    => /\ printPc \in {"generate", "threw"}
       /\ calls = 0
       /\ examples = <<>>

InRange(x, hi) == x.tag = "int" /\ x.value >= 1 /\ x.value <= hi

CountsInRange(input) ==
  /\ InRange(input.examplesCount, 1000)
  /\ InRange(input.actionsCount, 20)
  /\ InRange(input.digitCount, 9)

NoBlockSelected(input) ==
  \A name \in {"simple", "brothers", "friends", "mix"} : input.blocks[name].digits = <<>>

TwoColumnBlockTooNarrow(input) ==
  /\ input.blocks.friends.digits # <<>> \/ input.blocks.mix.digits # <<>>
  /\ input.digitCount.tag \in {"int", "undefined"}
  /\ input.digitCount.value < 2

\* C11: PrintGenerator.generate() raises before any generation attempt
\* when no block has a non-empty digits array and when the friends or mix
\* block has digits while digitCount < 2; every other configuration with
\* counts in range passes validation.
C11_BlockChecksRaiseFirst ==
  /\ (NoBlockSelected(printInput) \/ TwoColumnBlockTooNarrow(printInput)) =>
       /\ printPc \in {"generate", "threw"}
       /\ printPc = "generate" => ENABLED PrintValidateThrows
       /\ calls = 0
       /\ examples = <<>>
  /\ (/\ CountsInRange(printInput)
      /\ ~NoBlockSelected(printInput)
      /\ ~TwoColumnBlockTooNarrow(printInput)) =>
       /\ printPc # "threw"
       /\ printPc = "generate" => ENABLED PrintValidateReturns

\* C11 witness: generate() raised for a friends block with one column and
\* counts in range.
C11_Witness ==
  /\ printPc = "threw"
  /\ CountsInRange(printInput)
  /\ printInput.blocks.friends.digits # <<>>
  /\ printInput.blocks.mix.digits = <<>>
  /\ printInput.digitCount.value = 1
  /\ calls = 0

\* C12: for each rule variant, state and flag combination, when isFirst is
\* true or state = 0, every action of getAvailableActions(state, isFirst)
\* is non-negative.
C12_FirstOrZeroNonNegative ==
  (method = "getAvailableActions" /\ returned /\ (args.isFirst \/ args.state = 0)) =>
    \A i \in DOMAIN value : value[i] >= 0

\* C13: for each rule variant, every state s in [0, maxState], both values
\* of isFirst and every flag combination, every action a of
\* getAvailableActions(s, isFirst) has 0 <= s + a <= maxState (4 or 9 for
\* Simple, 9 for Brothers, 99 for Friends and Mix).
C13_OfferedActionsStayInRange ==
  (method = "getAvailableActions" /\ returned) =>
    \A i \in DOMAIN value :
      /\ args.state + value[i] >= 0
      /\ args.state + value[i] <= ClaimedMaxState(args.rule)

\* C13 witness: a Friends rule offered both an addition into the second
\* column and a subtraction.
C13_Witness ==
  /\ method = "getAvailableActions" /\ returned
  /\ args.rule.kind = "Friends"
  /\ \E i \in DOMAIN value : value[i] > 0 /\ args.state + value[i] >= 10
  /\ \E j \in DOMAIN value : value[j] < 0

\* C14: for every rule variant, validateExample returns false for an
\* example whose answer differs from the state reached by applying its
\* steps in order to start.
C14_WrongAnswerRejected ==
  (/\ method = "validateExample" /\ returned
   /\ args.example.answer # args.example.start + SumActions(args.example.steps))
    => value = FALSE

\* C15: in every Example returned by ExampleGenerator.generate with the
\* Simple rule, the first step's action is >= 0, and so is every later
\* step taken from a running sum of 0.
C15_SimpleNonNegativeFromZero ==
  (pc = "returned" /\ rule.kind = "Simple") =>
    \A k \in DOMAIN result.steps :
      (k = 1 \/ StateAfter(result, k - 1) = 0) => result.steps[k].action >= 0

\* C15 witness: a generated Simple example came back to 0 and went on with
\* an addition.
C15_Witness ==
  /\ pc = "returned" /\ rule.kind = "Simple"
  /\ attempt <= maxAttempts(rule)
  /\ \E k \in DOMAIN result.steps :
       k > 1 /\ StateAfter(result, k - 1) = 0 /\ result.steps[k].action > 0

IsScenarioA(r) ==
  /\ r.kind = "Simple"
  /\ r.selectedDigits = <<1, 2, 3, 4>>
  /\ r.minSteps = 3 /\ r.maxSteps = 3
  /\ digitCountOf(r) = 1

\* C16: with the Simple rule, selectedDigits [1,2,3,4], minSteps =
\* maxSteps = 3 and digitCount 1, every returned Example has exactly 3
\* steps, start 0 and every intermediate state in [0,4].
C16_ScenarioA ==
  (pc = "returned" /\ IsScenarioA(rule)) =>
    /\ Len(result.steps) = 3
    /\ result.start = 0
    /\ \A k \in 0..Len(result.steps) :
         StateAfter(result, k) >= 0 /\ StateAfter(result, k) <= 4

\* C16 witness: a generated (not fallback) example of scenario A that
\* reaches state 4.
C16_Witness ==
  /\ pc = "returned" /\ IsScenarioA(rule)
  /\ attempt <= maxAttempts(rule)
  /\ ~rule.onlyAddition /\ ~rule.onlySubtraction
  /\ \E k \in DOMAIN result.steps : StateAfter(result, k) = 4

ClaimedFriendTransition(from, to) ==
  LET n == IF to > from THEN to - from ELSE from - to
      units == from % 10
      tens == from \div 10
  IN \/ to > from /\ units + n >= 10 /\ tens < 9
     \/ to < from /\ units < n /\ tens > 0

\* C17: for the Friends rule and all from, to in [0,99] with |to - from| a
\* configured friends digit, the transition is classified as a friend
\* transition iff (to > from, units(from) + n >= 10, tens(from) < 9) or
\* (to < from, units(from) < n, tens(from) > 0); with digits [9], 13 -> 22
\* and 5 -> 14 are friend transitions.
C17_FriendClassification ==
  (method = "isFriendTransition" /\ returned) =>
    /\ (/\ args.to \in 0..99
        /\ \E i \in DOMAIN args.rule.techDigits :
             args.rule.techDigits[i] = Abs(args.to - args.from))
         => (value <=> ClaimedFriendTransition(args.from, args.to))
    /\ (/\ args.rule.techDigits = <<9>>
        /\ <<args.from, args.to>> \in {<<13, 22>>, <<5, 14>>}) => value

\* C17 witness: with digits [9], 13 -> 22 was classified.
C17_Witness ==
  /\ method = "isFriendTransition" /\ returned
  /\ args.rule.techDigits = <<9>>
  /\ args.from = 13 /\ args.to = 22
  /\ value

\* C18: for the Brothers rule, every action of a configured brothers
\* magnitude n whose transition from the state is classified as a brother
\* transition is decomposed into exactly two micro-steps, +5 then -(5-n) for
\* an addition and -5 then +(5-n) for a subtraction, which sum to the action.
C18_BrothersDecomposition ==
  (method = "Brothers.decomposeAction" /\ returned
     /\ Abs(args.action) \in Range(args.rule.techDigits)
     /\ isBrotherTransition(args.rule, args.state, args.state + args.action))
    => LET n == Abs(args.action)
       IN /\ Len(value) = 2
          /\ args.action > 0 => (value[1].action = 5 /\ value[2].action = 0 - (5 - n))
          /\ args.action < 0 => (value[1].action = 0 - 5 /\ value[2].action = 5 - n)
          /\ SumActions(value) = args.action

C18_Witness ==
  /\ method = "Brothers.decomposeAction" /\ returned
  /\ args.rule.techDigits = <<4>>
  /\ args.state = 9
  /\ args.action = 0 - 4
  /\ isBrotherTransition(args.rule, 9, 5)
  /\ value = <<MicroStep(0 - 5, "upper"), MicroStep(1, "lower")>>

\* C19: for the Mix rule, for every configured digit n in 6..9 and both
\* signs, decomposeAction returns the three micro-steps +10, -5, -((10-n)-5)
\* for +n and -10, +5, +((10-n)-5) for -n, and they sum to the action.
C19_MixDecomposition ==
  (method = "Mix.decomposeAction" /\ returned
     /\ Abs(args.action) \in Range(args.rule.techDigits)
     /\ Abs(args.action) \in 6..9)
    => LET n == Abs(args.action)
       IN /\ Len(value) = 3
          /\ args.action > 0 => /\ value[1].action = 10
                                /\ value[2].action = 0 - 5
                                /\ value[3].action = 0 - ((10 - n) - 5)
          /\ args.action < 0 => /\ value[1].action = 0 - 10
                                /\ value[2].action = 5
                                /\ value[3].action = (10 - n) - 5
          /\ SumActions(value) = args.action

C19_Witness ==
  /\ method = "Mix.decomposeAction" /\ returned
  /\ args.rule.techDigits = <<6, 7, 8, 9>>
  /\ args.action = 0 - 7
  /\ value = <<MicroStep(0 - 10, "friend"), MicroStep(5, "brother"),
               MicroStep(0 - 2, "simple")>>

\* C20: with displayDigitCount = 2 and any configured digit set of the
\* wrapped rule, no number returned by _generateMultiDigitAction has 0 as
\* its leading digit: a number of fixed width 2 has magnitude at least 10,
\* and a number of either width is not 0.
C20_NoLeadingZero ==
  (method = "generateMultiDigitAction" /\ returned /\ ~value.isNull
     /\ args.gen.displayDigitCount = 2)
    => /\ value.action # 0
       /\ ~args.gen.variableDigitCounts => Abs(value.action) >= 10

\* The zero digits at non-leading positions of the numbers of an example
\* whose numbers are all written with two digits: the units digit of each.
RECURSIVE NonLeadingZeros(_)
NonLeadingZeros(steps) ==
  IF steps = <<>> THEN 0
  ELSE (IF Abs(Head(steps).action) % 10 = 0 THEN 1 ELSE 0) + NonLeadingZeros(Tail(steps))

\* C21: within one attempt of MultiDigitGenerator the zero digits placed at
\* non-leading positions over all of its actions never number more than
\* maxZeroDigits, on every path including the retry-exhausted fallback to the
\* first configured digit.
C21_ZeroDigitsLimited ==
  (method = "generateAttempt" /\ returned /\ ~value.threw)
    => NonLeadingZeros(value.example.steps) <= maxZeroDigits

\* On the first step and when the running total is 0 the action is positive,
\* whatever the flags; otherwise it is positive under onlyAddition and
\* negative under onlySubtraction (onlyAddition is read first).
C22_FixedSign ==
  (method = "generateMultiDigitAction" /\ returned /\ value.action # 0)
    => /\ (args.isFirst \/ args.currentState = 0) => value.action > 0
       /\ (~args.isFirst /\ args.currentState # 0 /\ args.rule.onlyAddition)
            => value.action > 0
       /\ (~args.isFirst /\ args.currentState # 0 /\ args.rule.onlySubtraction
             /\ ~args.rule.onlyAddition)
            => value.action < 0

C22_Witness ==
  /\ method = "generateMultiDigitAction" /\ returned
  /\ args.rule.onlySubtraction /\ ~args.rule.onlyAddition
  /\ args.isFirst
  /\ args.currentState = 44
  /\ value.action = 44

\* With neither flag set, after the first step and away from 0, either sign
\* can be drawn.
C22_EitherSign ==
  (method = "generateMultiDigitAction" /\ ~returned
     /\ ~args.isFirst /\ args.currentState # 0
     /\ ~args.rule.onlyAddition /\ ~args.rule.onlySubtraction)
    => LET results == generateMultiDigitAction(args.gen, args.rule, args.currentState,
                                               args.isFirst, args.zeroDigitsUsed)
       IN /\ \E r \in results : r.action > 0
          /\ \E r \in results : r.action < 0

\* C22: the sign of an action of MultiDigitGenerator is positive on the first
\* step and when the running total is 0, whatever the flags; otherwise it is
\* positive under onlyAddition, negative under onlySubtraction, and either
\* sign when neither flag is set.
C22_SignOfAction == C22_FixedSign /\ C22_EitherSign

\* C23: every step {action, fromState, toState} of an Example returned by
\* ExampleGenerator.generate satisfies toState = fromState + action, in
\* single-column mode, in independent-column mode and in lock-step mode.
C23_StepsAreConsistent ==
  (pc = "returned" /\ ~gen.multi) =>
    \A i \in DOMAIN result.steps :
      result.steps[i].toState = result.steps[i].fromState + result.steps[i].action

\* C24: every example returned by PrintGenerator.generate() has exactly
\* actionsCount steps, for every valid configuration and every rule block.
C24_ExamplesHaveActionsCountSteps ==
  printPc = "returned" =>
    \A i \in DOMAIN examples : Len(examples[i].steps) = printConfig.actionsCount.value

\* C25: a MultiDigitGenerator wrapping the Simple rule with selected digits
\* [1,2,3,4,5], displayDigitCount = 2 and numbers of fixed length can return
\* a validated example made of two-digit actions: some execution of
\* generateExample returns instead of throwing.
C25_SimpleTwoDigitExampleCanReturn ==
  (method = "MultiDigitGenerator.generateExample" /\ ~returned
     /\ args.rule.kind = "Simple" /\ args.rule.selectedDigits = <<1, 2, 3, 4, 5>>
     /\ args.gen.displayDigitCount = 2 /\ ~args.gen.variableDigitCounts)
    => \E r \in MultiDigitGenerateExample(args.gen, args.rule) :
         /\ ~r.threw
         /\ \A i \in DOMAIN r.example.steps : Abs(r.example.steps[i].action) >= 10

\* A transition over the 5-boundary: an addition from at most 4 to at least
\* 5, a subtraction from at least 5 to at most 4.
CrossesFive(from, to) ==
  \/ to > from /\ from <= 4 /\ to >= 5
  \/ to < from /\ from >= 5 /\ to <= 4

\* C26: for the Brothers rule, every transition from -> to with from, to in
\* [0,9] and |to - from| in the brothers digits that is classified as a
\* brother transition crosses the 5-boundary.
C26_BrotherTransitionsCrossFive ==
  (method = "isBrotherTransition" /\ returned
     /\ args.to \in 0..9
     /\ Abs(args.to - args.from) \in Range(args.rule.techDigits)
     /\ value = TRUE)
    => CrossesFive(args.from, args.to)

\* C27: for the Brothers rule, every transition with from, to in [0,9] that
\* crosses the 5-boundary with a magnitude in the brothers digits is
\* classified as a brother transition (e.g. 5 -> 1 with n = 4).
C27_CrossingsAreBrotherTransitions ==
  (method = "isBrotherTransition" /\ returned
     /\ args.to \in 0..9
     /\ Abs(args.to - args.from) \in Range(args.rule.techDigits)
     /\ CrossesFive(args.from, args.to))
    => value = TRUE

\* A direct bead move on one column: adding N activates inactive beads only
\* (the upper bead must be inactive when N >= 5, and the lower beads active
\* plus N mod 5 stay within 4); subtracting N deactivates active beads only.
DirectMove(state, action) ==
  LET N == Abs(action)
      upper == state >= 5
      lower == IF state >= 5 THEN state - 5 ELSE state
  IN IF action > 0
       THEN (N >= 5 => ~upper) /\ lower + (N % 5) <= 4
       ELSE (N >= 5 => upper) /\ lower - (N % 5) >= 0

\* C28: for the Simple rule in five-bead mode (maxState 9),
\* isPhysicallyPossible(state, action) is true only for direct bead moves,
\* so that no validated Simple example contains a step such as 4 -> 5 (+1)
\* or 3 -> 6 (+3).
C28_OnlyDirectMovesPossible ==
  /\ (method = "isPhysicallyPossible" /\ returned /\ args.rule.maxState = 9
        /\ value = TRUE)
       => DirectMove(args.state, args.action)
  /\ (method = "validateExample" /\ returned /\ args.rule.kind = "Simple"
        /\ args.rule.maxState = 9 /\ value = TRUE)
       => \A k \in DOMAIN args.example.steps :
            DirectMove(StateAfter(args.example, k - 1), args.example.steps[k].action)

\* C29: for a Mix rule configured with a non-empty subset of the digits
\* 6..9, for each configured digit at least one transition from a state in
\* [0,99] is classified as a mix transition.
C29_MixTransitionsExist ==
  method = "isMixTransition" =>
    \A i \in DOMAIN args.rule.techDigits :
      \E from \in 0..99 :
        \/ isMixTransition(args.rule, from, from + args.rule.techDigits[i])
        \/ isMixTransition(args.rule, from, from - args.rule.techDigits[i])

\* C30: for Brothers and Mix, decomposeAction applied to an action whose
\* transition from the current state is not a signature transition returns
\* exactly one micro-step, whose action is the original action (e.g. Mix +7
\* from state 0).  MixRule.decomposeAction is not given the state: its result
\* is the one for every state.
C30_PlainActionsStayWhole ==
  /\ (method = "Brothers.decomposeAction" /\ returned
        /\ ~isBrotherTransition(args.rule, args.state, args.state + args.action))
       => (Len(value) = 1 /\ value[1].action = args.action)
  /\ (method = "Mix.decomposeAction" /\ returned
        /\ \E state \in 0..99 : ~isMixTransition(args.rule, state, state + args.action))
       => (Len(value) = 1 /\ value[1].action = args.action)

\* C31: in every generation mode of ExampleGenerator, an attempt in which a
\* column has no available action is abandoned; no returned example contains
\* a step produced while a column had no legal action, in particular no step
\* with net action 0.
C31_NoStepWithoutLegalAction ==
  (pc = "returned" /\ ~gen.multi) =>
    \A i \in DOMAIN result.steps : result.steps[i].action # 0

Occurrences(seq, a) == Cardinality({i \in DOMAIN seq : seq[i] = a})

ClaimedTimes(r) == IF r.kind = "Mix" THEN 6 ELSE 5

\* C32: in the multiset returned by getAvailableActions of Brothers, Friends
\* and Mix, every action whose transition from the given state is a
\* signature transition occurs floor(priority * 10) times (5 for Brothers and
\* Friends, 6 for Mix), and every other offered action occurs exactly once.
C32_SignatureActionsRepeated ==
  (method = "getAvailableActions" /\ returned /\ args.rule.kind # "Simple") =>
    \A a \in Range(value) :
      Occurrences(value, a) =
        IF isSignatureTransition(args.rule, args.state, args.state + a)
          THEN ClaimedTimes(args.rule) ELSE 1

\* C33: when an assembled attempt has more steps than the rule's maxSteps,
\* ExampleGenerator.generate keeps exactly the first maxSteps steps in their
\* order and sets answer to start plus the sum of the retained actions
\* before validating, so a returned non-fallback example never has more than
\* maxSteps steps.
C33_TruncatedToMaxSteps ==
  [][(pc = "loop" /\ pc' = "returned" /\ attempt <= maxAttempts(rule)) =>
       /\ Len(result'.steps) <= rule.maxSteps
       /\ \E n \in StepsCounts(rule) : \E out \in AttemptOutcomes(rule, n) :
            /\ ~out.threw
            /\ result'.start = out.example.start
            /\ IF Len(out.example.steps) > rule.maxSteps
                 THEN /\ result'.steps = SubSeq(out.example.steps, 1, rule.maxSteps)
                      /\ result'.answer = result'.start + SumActions(result'.steps)
                 ELSE result' = out.example]_vars

C33_Witness ==
  /\ pc = "returned" /\ ~gen.multi
  /\ attempt <= maxAttempts(rule)
  /\ rule.minSteps > rule.maxSteps
  /\ Len(result.steps) = rule.maxSteps
  /\ result.answer = result.start + SumActions(result.steps)

\* C34: for a rule configured with minSteps <= maxSteps, every Example
\* returned by ExampleGenerator.generate, on every path, has a number of
\* steps in [minSteps, maxSteps].
C34_StepsCountWithinConfigured ==
  (pc = "returned" /\ rule.minSteps <= rule.maxSteps) =>
    /\ Len(result.steps) >= rule.minSteps
    /\ Len(result.steps) <= rule.maxSteps

\* C35: after construction, generation never writes to a configuration
\* object; in particular a call of _generateMultiDigitAction leaves the
\* MultiDigitGenerator's config, its counter _zeroDigitsUsed included, as it
\* was.
C35_ConfigLeftUnchanged ==
  (method = "generateMultiDigitAction" /\ returned) =>
    value.zeroDigitsUsed = args.zeroDigitsUsed

\* C36: with the device one column wider than the numbers shown, an action
\* that would move the running total outside 0 .. 10^maxDigitCount - 1 is
\* rejected by _generateMultiDigitAction, and every running total of an
\* example returned by _generateAttempt or by
\* MultiDigitGenerator.generateExample lies in that range.
TotalsWithinDevice(generator, example) ==
  \A k \in 0..Len(example.steps) :
    /\ StateAfter(example, k) >= 0
    /\ StateAfter(example, k) < Pow10(generator.maxDigitCount)

C36_TotalsWithinDevice ==
  /\ (method = "generateMultiDigitAction" /\ returned) =>
       /\ args.gen.maxDigitCount = args.gen.displayDigitCount + 1
       /\ (\/ args.currentState + value.action < 0
           \/ args.currentState + value.action >= Pow10(args.gen.maxDigitCount))
            => value.isNull
  /\ (/\ method \in {"generateAttempt", "MultiDigitGenerator.generateExample"}
      /\ returned) =>
       \/ value.threw
       \/ /\ TotalsWithinDevice(args.gen, value.example)
          /\ value.example.answer = StateAfter(value.example, Len(value.example.steps))

C36_Witness ==
  /\ method = "generateMultiDigitAction"
  /\ returned
  /\ value.isNull
  /\ args.currentState + value.action >= Pow10(args.gen.maxDigitCount)

\* C37: when validate() passes, PrintGenerator.generate() returns exactly
\* examplesCount examples, the example at position i has id i, and each has
\* a non-empty list of steps: none is dropped, no id is skipped or repeated.
C37_AllExamplesReturnedInOrder ==
  /\ printPc \in {"loop", "returned"} =>
       /\ PrintValidate(printConfig)
       /\ Len(examples) <= printConfig.examplesCount.value
       /\ \A i \in DOMAIN examples :
            /\ examples[i].id = i
            /\ examples[i].steps # <<>>
  /\ printPc = "returned" => Len(examples) = printConfig.examplesCount.value

C37_Witness ==
  /\ printPc = "returned"
  /\ printConfig.examplesCount.value = MaxStepsBound
  /\ Len(examples) = MaxStepsBound
  /\ examples[1].id = 1
  /\ examples[MaxStepsBound].id = MaxStepsBound
  /\ examples[1].steps # examples[MaxStepsBound].steps

\* C38: generateExample(settings) takes the rule class of the first block,
\* in the order Mix, Friends, Brothers, Simple, whose digits list is not
\* empty (Simple when every list is empty), and wraps it in a
\* MultiDigitGenerator exactly when settings.digits parses to a number above
\* 1; with digits 1, missing or invalid the rule is used directly.
C38_RuleBuilt ==
  caller = "generateExample" /\ pc \notin {"generateExample", "settingsThrew"}

C38_RuleByPriority ==
  C38_RuleBuilt =>
    LET mixActive == Len(settings.blocks.mix.digits) > 0
        friendsActive == Len(settings.blocks.friends.digits) > 0
        brothersActive == Len(settings.blocks.brothers.digits) > 0
    IN /\ mixActive => rule.kind = "Mix"
       /\ (~mixActive /\ friendsActive) => rule.kind = "Friends"
       /\ (~mixActive /\ ~friendsActive /\ brothersActive) => rule.kind = "Brothers"
       /\ (~mixActive /\ ~friendsActive /\ ~brothersActive) => rule.kind = "Simple"
       /\ gen.multi <=> (settings.digits.finite /\ settings.digits.value > 1)
       /\ gen.multi => gen.displayDigitCount = settings.digits.value
       /\ ~gen.multi => gen = PlainRule

C38_Witness ==
  /\ C38_RuleBuilt
  /\ Len(settings.blocks.mix.digits) > 0
  /\ Len(settings.blocks.friends.digits) > 0
  /\ Len(settings.blocks.simple.digits) > 0
  /\ rule.kind = "Mix"
  /\ ~gen.multi

====
